---- MODULE Spec2Model ----
(***************************************************************************)
(* A model of the MuulRepo database layer: the remote bridge protocol      *)
(* (MuulService.executeRemoteQuery, fetchSavedCredentials,                 *)
(* detectMuulBrowser), remote schema discovery                             *)
(* (MuulService.getRemoteDatabaseSchema) and the three execution engines   *)
(* (SqliteEngine, MockEngine, MongoEngine).                                *)
(*                                                                         *)
(* Two specifications share the variables:                                 *)
(*   QuerySpec   the execution entry points and the bridge helpers         *)
(*   SchemaSpec  the schema producers                                      *)
(* A specification leaves the other one's variables at their idle value.   *)
(***************************************************************************)
EXTENDS Integers, Sequences, FiniteSets, TLC

VARIABLES
    externalMessage,  \* window.externalMessage: "undefined", "noSend" or "hasSend"
    op,               \* the operation last started
    pc,               \* "idle", "awaiting" (suspended on send), "resolved", "rejected"
    sent,             \* the request envelopes handed to send by the current operation
    outcome,          \* what the bridge did with the request awaited last
    qres,             \* the QueryResult a query operation resolved to
    credsRes,         \* the array fetchSavedCredentials resolved to
    isMuul,           \* the boolean detectMuulBrowser resolved to
    sch,              \* the state of the schema producer in progress
    svc,              \* MuulService and its SqliteEngine: id counter, maps, uploads
    call,             \* the router call made last, with its arguments and result
    bridge,           \* the clock and the requests the bridge has not answered
    editor,           \* the active tab, the active schema and the pending joins
    app,              \* App: the selected connection, its schema loads, the table cache
    storage           \* localStorage: the DBA history kept under its key

queryVars == <<externalMessage, op, pc, sent, outcome, qres, credsRes, isMuul>>
appVars == <<svc, call, bridge, editor, app, storage>>
vars == <<externalMessage, op, pc, sent, outcome, qres, credsRes, isMuul, sch,
          svc, call, bridge, editor, app, storage>>

(***************************************************************************)
(* Bounds of the model.                                                    *)
(***************************************************************************)
MaxRows == 2      \* rows in a bridge reply to a query
MaxMarkers == 2   \* catalog identifiers and sentinel phrases in one SQL text
MaxTables == 2    \* tables a list-tables reply discovers

(***************************************************************************)
(* JavaScript values.  Every value has the same three fields, so that any  *)
(* two values can be compared.                                             *)
(***************************************************************************)
Undef == [t |-> "undefined", n |-> 0, s |-> ""]
Null == [t |-> "null", n |-> 0, s |-> ""]
Num(i) == [t |-> "number", n |-> i, s |-> ""]
Str(x) == [t |-> "string", n |-> 0, s |-> x]
Bool(b) == [t |-> "boolean", n |-> IF b THEN 1 ELSE 0, s |-> ""]
\* a number that is not an integer, kept by its literal
Dec(x) == [t |-> "number", n |-> 1, s |-> x]
\* an object or array value that is only passed through
Ref(x) == [t |-> "object", n |-> 0, s |-> x]

\* ToBoolean
Truthy(v) ==
    CASE v.t = "undefined" -> FALSE
      [] v.t = "null" -> FALSE
      [] v.t = "number" -> v.n # 0
      [] v.t = "string" -> v.s # ""
      [] v.t = "boolean" -> v.n = 1
      [] OTHER -> TRUE

\* a || b
JsOr(a, b) == IF Truthy(a) THEN a ELSE b

\* an optional array-valued field of a reply
Absent == [has |-> FALSE, arr |-> FALSE, v |-> <<>>]
Present(list) == [has |-> TRUE, arr |-> TRUE, v |-> list]
\* a truthy value that is not an array
NonArray == [has |-> TRUE, arr |-> FALSE, v |-> <<>>]
\* field || []
OrEmpty(f) == IF f.has THEN f.v ELSE <<>>

(***************************************************************************)
(* Rows of a reply: a tuple (array), a row object (its fields in           *)
(* enumeration order), a number or null.                                   *)
(***************************************************************************)
ArrRow(items) == [k |-> "array", items |-> items, fields |-> <<>>]
ObjRow(fields) == [k |-> "object", items |-> <<>>, fields |-> fields]
NumRow == [k |-> "number", items |-> <<>>, fields |-> <<>>]
NullRow == [k |-> "null", items |-> <<>>, fields |-> <<>>]
Field(key, val) == [key |-> key, val |-> val]

\* the property name of array index i (0-based)
IndexKey(i) ==
    CASE i = 0 -> "0" [] i = 1 -> "1" [] i = 2 -> "2" [] i = 3 -> "3" [] OTHER -> "4"

\* Object.keys(row)
ObjectKeys(row) ==
    CASE row.k = "object" -> [i \in 1..Len(row.fields) |-> row.fields[i].key]
      [] row.k = "array" -> [i \in 1..Len(row.items) |-> IndexKey(i - 1)]
      [] OTHER -> <<>>

\* row[col] for a row that is not null
ReadKey(row, col) ==
    CASE row.k = "object" ->
           IF \E i \in 1..Len(row.fields) : row.fields[i].key = col
           THEN row.fields[CHOOSE i \in 1..Len(row.fields) : row.fields[i].key = col].val
           ELSE Undef
      [] row.k = "array" ->
           IF \E i \in 1..Len(row.items) : IndexKey(i - 1) = col
           THEN row.items[CHOOSE i \in 1..Len(row.items) : IndexKey(i - 1) = col]
           ELSE Undef
      [] OTHER -> Undef

\* typeof row === 'object' && row !== null
IsObjectRow(row) == row.k \in {"object", "array"}

(***************************************************************************)
(* QueryResult.  error is Undef when the field is not set.                 *)
(***************************************************************************)
QueryResult(columns, rows, rowCount, executionTimeMs, error) ==
    [columns |-> columns, rows |-> rows, rowCount |-> rowCount,
     executionTimeMs |-> executionTimeMs, error |-> error]

ErrorResult(error) == QueryResult(<<>>, <<>>, Num(0), Num(0), error)

NoResult == QueryResult(<<>>, <<>>, Undef, Undef, Undef)

Resolved(value) == [status |-> "resolved", value |-> value]
Rejected == [status |-> "rejected", value |-> NoResult]

(***************************************************************************)
(* The bridge.  A call of send throws, or returns a promise that rejects   *)
(* or that fulfils with a reply.                                           *)
(***************************************************************************)
\* the guard without the test of send itself
HasSend_ObjectOnly(em) == em # "undefined"

\* window.externalMessage?.send
HasSend(em) == em = "hasSend"

\* thrown or rejected values
ErrNull == [k |-> "null", message |-> Undef]
ErrUndefined == [k |-> "undefined", message |-> Undef]
ErrObject(message) == [k |-> "object", message |-> message]
ErrString == [k |-> "string", message |-> Undef]

\* the TypeError of a property read on null
TypeError == ErrObject(Str("Cannot read properties of null"))

\* a reply envelope; k is "object", "null" or "undefined"
Reply(ok, columns, rows, rowCount, executionTimeMs, error) ==
    [k |-> "object", ok |-> ok, columns |-> columns, rows |-> rows,
     rowCount |-> rowCount, executionTimeMs |-> executionTimeMs, error |-> error,
     entries |-> Absent, dataEntries |-> Absent, isMuulorigin |-> Undef]

NullReply == [Reply(Undef, Absent, Absent, Undef, Undef, Undef) EXCEPT !.k = "null"]
UndefinedReply == [Reply(Undef, Absent, Absent, Undef, Undef, Undef) EXCEPT !.k = "undefined"]

Threw(e) == [kind |-> "throw", err |-> e, reply |-> UndefinedReply]
RejectedWith(e) == [kind |-> "reject", err |-> e, reply |-> UndefinedReply]
Replied(r) == [kind |-> "reply", err |-> ErrUndefined, reply |-> r]
NoOutcome == [kind |-> "none", err |-> ErrUndefined, reply |-> UndefinedReply]

\* response?.field
ReplyOk(r) == IF r.k = "object" THEN r.ok ELSE Undef
ReplyError(r) == IF r.k = "object" THEN r.error ELSE Undef

(***************************************************************************)
(* MuulService.executeRemoteQuery.                                         *)
(***************************************************************************)
BridgeNotDetected == ErrorResult(Str("Muul Browser bridge not detected."))

\* the request envelope handed to send, before JSON.stringify
QueryPayload(credentialId, sql) ==
    [type |-> "EXECUTE_REMOTE_QUERY", credentialId |-> credentialId, sql |-> sql]

\* the keys of the last row instead of the first
InferredColumns_LastRow(rows) == ObjectKeys(rows[Len(rows)])

\* Object.keys(rows[0])
InferredColumns(rows) == ObjectKeys(rows[1])

\* columns.map(col => obj[col])
ProjectRow(row, columns) ==
    ArrRow([j \in 1..Len(columns) |-> ReadKey(row, columns[j])])

\* the condition of the data shape inference
Infers(response) ==
    LET columns == OrEmpty(response.columns)
        rows == OrEmpty(response.rows)
    IN  Len(columns) = 0 /\ Len(rows) > 0 /\ IsObjectRow(rows[1])

\* the projection reads a property of a null row
ProjectionThrows(response) ==
    LET rows == OrEmpty(response.rows)
    IN  /\ Infers(response)
        /\ Len(InferredColumns(rows)) > 0
        /\ \E i \in 1..Len(rows) : rows[i].k = "null"

ResultColumns(response) ==
    IF Infers(response)
    THEN InferredColumns(OrEmpty(response.rows))
    ELSE OrEmpty(response.columns)

ResultRows(response) ==
    LET rows == OrEmpty(response.rows)
    IN  IF Infers(response)
        THEN [i \in 1..Len(rows) |-> ProjectRow(rows[i], InferredColumns(rows))]
        ELSE rows

\* response.rowCount || (rows ? rows.length : 0)
ResultRowCount(response) ==
    JsOr(response.rowCount, Num(Len(ResultRows(response))))

\* response.executionTimeMs || 0
ResultExecutionTimeMs(response) == JsOr(response.executionTimeMs, Num(0))

\* the ok branch with the reply's error field copied into the result
OkResult_KeepsError(response) ==
    QueryResult(ResultColumns(response), ResultRows(response),
                ResultRowCount(response), ResultExecutionTimeMs(response), response.error)

\* the result object of the ok branch, which has no error field
OkResult(response) ==
    QueryResult(ResultColumns(response), ResultRows(response),
                ResultRowCount(response), ResultExecutionTimeMs(response), Undef)

\* the catch block: error.message || "Bridge communication failed".
\* Reading message of null or undefined throws, and the call rejects.
CatchBlock(e) ==
    IF e.k \in {"null", "undefined"}
    THEN Rejected
    ELSE Resolved(ErrorResult(JsOr(e.message, Str("Bridge communication failed"))))

\* the try block after the await of send
AfterSend(out) ==
    IF out.kind \in {"throw", "reject"}
    THEN CatchBlock(out.err)
    ELSE IF out.reply.k = "object" /\ Truthy(out.reply.ok)
         THEN IF ProjectionThrows(out.reply)
              THEN CatchBlock(TypeError)
              ELSE Resolved(OkResult(out.reply))
         ELSE Resolved(ErrorResult(JsOr(ReplyError(out.reply), Str("Unknown remote error"))))

\* the whole call, given what the bridge does with its request
ExecuteRemoteQuery(em, out) ==
    IF ~HasSend(em) THEN Resolved(BridgeNotDetected) ELSE AfterSend(out)

(***************************************************************************)
(* The outcomes of a bridge call that the model draws from.                *)
(***************************************************************************)
Errors ==
    {ErrNull, ErrUndefined, ErrString,
     ErrObject(Str("boom")), ErrObject(Str("")), ErrObject(Undef)}

RowShapes ==
    {[k |-> "array", keys |-> s] : s \in {<<>>, <<"0">>, <<"0", "1">>}}
    \cup {[k |-> "object", keys |-> s] :
             s \in {<<>>, <<"a">>, <<"b">>, <<"a", "b">>, <<"b", "a">>}}
    \cup {[k |-> "number", keys |-> <<>>], [k |-> "null", keys |-> <<>>]}

KeyNum(key) == CASE key \in {"a", "0"} -> 1 [] OTHER -> 2

\* the row of a shape at index i; every cell tells its row and its key
MkRow(shape, i) ==
    CASE shape.k = "object" ->
           ObjRow([j \in 1..Len(shape.keys) |->
                      Field(shape.keys[j], Num(10 * i + KeyNum(shape.keys[j])))])
      [] shape.k = "array" ->
           ArrRow([j \in 1..Len(shape.keys) |-> Num(10 * i + KeyNum(shape.keys[j]))])
      [] shape.k = "number" -> NumRow
      [] OTHER -> NullRow

RowLists ==
    UNION {{[i \in 1..n |-> MkRow(f[i], i)] : f \in [1..n -> RowShapes]} : n \in 0..MaxRows}

ColumnLists ==
    {Absent, Present(<<>>), Present(<<"a">>), Present(<<"a", "b">>),
     Present(<<"b", "a">>), Present(<<"a", "a">>)}

\* {ok: true, rows: [{a: 1, b: "x"}]}
ExampleReply ==
    Reply(Bool(TRUE), Absent,
          Present(<<ObjRow(<<Field("a", Num(1)), Field("b", Str("x"))>>)>>),
          Undef, Undef, Undef)

\* replies with ok true, and replies that are no success
QueryReplies ==
    {Reply(Bool(TRUE), c, r, n, t, e) :
        c \in ColumnLists,
        r \in {Absent} \cup {Present(l) : l \in RowLists},
        n \in {Undef, Num(0), Num(5)},
        t \in {Undef, Num(7)},
        e \in {Undef, Str("denied")}}
    \cup {ExampleReply}
    \cup
    {Reply(ok, Absent, r, Undef, Undef, e) :
        ok \in {Bool(FALSE), Undef},
        r \in {Absent, Present(<<ArrRow(<<Num(11)>>)>>)},
        e \in {Undef, Str(""), Str("denied")}}
    \cup {NullReply, UndefinedReply}

(***************************************************************************)
(* executeRemoteQuery as the steps of a call: up to the await of send,     *)
(* and from the settling of the promise to the return.                     *)
(***************************************************************************)
Finish(res) ==
    /\ pc' = res.status
    /\ qres' = res.value

ExecuteRemoteQuery_Call ==
    /\ pc = "idle"
    /\ op' = "executeRemoteQuery"
    /\ credsRes' = <<>>
    /\ isMuul' = FALSE
    /\ \E credentialId \in {"cred-1"}, sql \in {"SELECT 1"} :
         IF ~HasSend(externalMessage)
         THEN /\ sent' = <<>>
              /\ outcome' = NoOutcome
              /\ Finish(Resolved(BridgeNotDetected))
         ELSE /\ sent' = <<QueryPayload(credentialId, sql)>>
              /\ \/ /\ outcome' = NoOutcome
                    /\ pc' = "awaiting"
                    /\ qres' = NoResult
                 \/ \E e \in Errors :
                      /\ outcome' = Threw(e)
                      /\ Finish(AfterSend(Threw(e)))
    /\ UNCHANGED <<externalMessage, sch, appVars>>

ExecuteRemoteQuery_Settle ==
    /\ pc = "awaiting"
    /\ op = "executeRemoteQuery"
    /\ \E out \in {RejectedWith(e) : e \in Errors} \cup {Replied(r) : r \in QueryReplies} :
         /\ outcome' = out
         /\ Finish(AfterSend(out))
    /\ UNCHANGED <<externalMessage, op, sent, credsRes, isMuul, sch, appVars>>

(***************************************************************************)
(* fetchSavedCredentials and detectMuulBrowser.                            *)
(***************************************************************************)
CredentialsPayload == [type |-> "GET_SAVED_CREDENTIALS"]
DetectPayload == [type |-> "MUULORIGIN"]

\* response.entries alone
ReplyEntries_RootOnly(response) == response.entries

\* response.entries || response.data?.entries
ReplyEntries(response) ==
    IF response.entries.has THEN response.entries ELSE response.dataEntries

\* the value fetchSavedCredentials resolves to after the await of send
FetchAfterSend(out) ==
    IF out.kind \in {"throw", "reject"}
    THEN <<>>
    ELSE IF out.reply.k = "object" /\ Truthy(out.reply.ok)
         THEN IF ReplyEntries(out.reply).arr THEN ReplyEntries(out.reply).v ELSE <<>>
         ELSE <<>>

\* response?.ok === true && response?.isMuulorigin === true
DetectAfterSend(out) ==
    IF out.kind \in {"throw", "reject"}
    THEN FALSE
    ELSE /\ out.reply.k = "object"
         /\ out.reply.ok = Bool(TRUE)
         /\ out.reply.isMuulorigin = Bool(TRUE)

Entry(id, dbType) == [id |-> id, connectionName |-> id, dbType |-> dbType]

CredentialReplies ==
    LET entryFields ==
            {Absent, NonArray, Present(<<>>), Present(<<Entry("cred-1", "postgres")>>),
             Present(<<Entry("cred-2", "mysql"), Entry("cred-1", "postgres")>>)}
    IN  {[Reply(ok, Absent, Absent, Undef, Undef, Undef)
             EXCEPT !.entries = e, !.dataEntries = d] :
            ok \in {Bool(TRUE), Bool(FALSE), Undef}, e \in entryFields, d \in entryFields}
        \cup {NullReply, UndefinedReply}

DetectReplies ==
    {[Reply(ok, Absent, Absent, Undef, Undef, Undef) EXCEPT !.isMuulorigin = m] :
        ok \in {Bool(TRUE), Bool(FALSE), Undef, Num(1)},
        m \in {Bool(TRUE), Bool(FALSE), Undef, Num(1)}}
    \cup {NullReply, UndefinedReply}

FetchSavedCredentials_Call ==
    /\ pc = "idle"
    /\ op' = "fetchSavedCredentials"
    /\ qres' = NoResult
    /\ isMuul' = FALSE
    /\ IF ~HasSend(externalMessage)
       THEN /\ sent' = <<>>
            /\ outcome' = NoOutcome
            /\ pc' = "resolved"
            /\ credsRes' = <<>>
       ELSE /\ sent' = <<CredentialsPayload>>
            /\ \/ /\ outcome' = NoOutcome
                  /\ pc' = "awaiting"
                  /\ credsRes' = <<>>
               \/ \E e \in Errors :
                    /\ outcome' = Threw(e)
                    /\ pc' = "resolved"
                    /\ credsRes' = FetchAfterSend(Threw(e))
    /\ UNCHANGED <<externalMessage, sch, appVars>>

FetchSavedCredentials_Settle ==
    /\ pc = "awaiting"
    /\ op = "fetchSavedCredentials"
    /\ \E out \in {RejectedWith(e) : e \in Errors} \cup {Replied(r) : r \in CredentialReplies} :
         /\ outcome' = out
         /\ pc' = "resolved"
         /\ credsRes' = FetchAfterSend(out)
    /\ UNCHANGED <<externalMessage, op, sent, qres, isMuul, sch, appVars>>

DetectMuulBrowser_Call ==
    /\ pc = "idle"
    /\ op' = "detectMuulBrowser"
    /\ qres' = NoResult
    /\ credsRes' = <<>>
    /\ IF ~HasSend(externalMessage)
       THEN /\ sent' = <<>>
            /\ outcome' = NoOutcome
            /\ pc' = "resolved"
            /\ isMuul' = FALSE
       ELSE /\ sent' = <<DetectPayload>>
            /\ \/ /\ outcome' = NoOutcome
                  /\ pc' = "awaiting"
                  /\ isMuul' = FALSE
               \/ \E e \in Errors :
                    /\ outcome' = Threw(e)
                    /\ pc' = "resolved"
                    /\ isMuul' = DetectAfterSend(Threw(e))
    /\ UNCHANGED <<externalMessage, sch, appVars>>

DetectMuulBrowser_Settle ==
    /\ pc = "awaiting"
    /\ op = "detectMuulBrowser"
    /\ \E out \in {RejectedWith(e) : e \in Errors} \cup {Replied(r) : r \in DetectReplies} :
         /\ outcome' = out
         /\ pc' = "resolved"
         /\ isMuul' = DetectAfterSend(out)
    /\ UNCHANGED <<externalMessage, op, sent, qres, credsRes, sch, appVars>>

(***************************************************************************)
(* SqliteEngine.executeQuery.  db.exec throws or returns the result sets   *)
(* of the statements, each with its columns and value tuples.              *)
(***************************************************************************)
ResultSet(columns, values) == [columns |-> columns, values |-> values]
ExecThrew(message) == [kind |-> "throw", message |-> message, sets |-> <<>>]
ExecReturned(sets) == [kind |-> "results", message |-> Undef, sets |-> sets]

SqliteExecuteQuery(known, exec, elapsed) ==
    IF ~known
    THEN Rejected
    ELSE IF exec.kind = "throw"
         THEN Resolved(QueryResult(<<>>, <<>>, Num(0), Num(elapsed), exec.message))
         ELSE IF Len(exec.sets) = 0
              THEN Resolved(QueryResult(<<>>, <<>>, Num(0), Num(elapsed), Undef))
              ELSE LET lastRes == exec.sets[Len(exec.sets)]
                   IN  Resolved(QueryResult(lastRes.columns, lastRes.values,
                                            Num(Len(lastRes.values)), Num(elapsed), Undef))

ExecOutcomes ==
    LET resultSets ==
            {ResultSet(<<"id">>, <<>>),
             ResultSet(<<"id">>, <<ArrRow(<<Num(1)>>), ArrRow(<<Num(2)>>)>>),
             ResultSet(<<"id", "name">>, <<ArrRow(<<Str("1"), Str("Alice")>>)>>)}
    IN  {ExecThrew(Str("near \"SELEC\": syntax error"))}
        \cup {ExecReturned(<<>>)}
        \cup {ExecReturned(<<a>>) : a \in resultSets}
        \cup {ExecReturned(<<a, b>>) : a \in resultSets, b \in resultSets}

SqliteEngine_ExecuteQuery ==
    /\ pc = "idle"
    /\ op' = "SqliteEngine.executeQuery"
    /\ sent' = <<>>
    /\ outcome' = NoOutcome
    /\ credsRes' = <<>>
    /\ isMuul' = FALSE
    /\ \E known \in BOOLEAN, exec \in ExecOutcomes, elapsed \in {0, 1} :
         Finish(SqliteExecuteQuery(known, exec, elapsed))
    /\ UNCHANGED <<externalMessage, sch, appVars>>

(***************************************************************************)
(* MongoEngine.  Key names are sequences of characters, so that the        *)
(* dotted names, their splitting and the '_id' suffix are computed.        *)
(***************************************************************************)
\* the key names of the canned documents
Key ==
    [id |-> <<"_", "i", "d">>,
     username |-> <<"u", "s", "e", "r", "n", "a", "m", "e">>,
     profile |-> <<"p", "r", "o", "f", "i", "l", "e">>,
     age |-> <<"a", "g", "e">>,
     city |-> <<"c", "i", "t", "y">>,
     tags |-> <<"t", "a", "g", "s">>,
     collection |-> <<"c", "o", "l", "l", "e", "c", "t", "i", "o", "n">>,
     status |-> <<"s", "t", "a", "t", "u", "s">>,
     metadata |-> <<"m", "e", "t", "a", "d", "a", "t", "a">>,
     source |-> <<"s", "o", "u", "r", "c", "e">>]
Dot == <<".">>

\* document values: a primitive, a nested object or an array
Obj(fields) == [t |-> "object", n |-> 0, s |-> "", sub |-> fields]
Arr(items) == [t |-> "array", n |-> 0, s |-> "", sub |-> items]

\* getMockDocuments
GetMockDocuments(collection) ==
    IF collection = "users"
    THEN <<Obj(<<Field(Key.id, Str("64a1b2c3")), Field(Key.username, Str("jdoe")),
                 Field(Key.profile, Obj(<<Field(Key.age, Num(30)), Field(Key.city, Str("NY"))>>)),
                 Field(Key.tags, Arr(<<Str("dev"), Str("admin")>>))>>),
           Obj(<<Field(Key.id, Str("64a1b2c4")), Field(Key.username, Str("asmith")),
                 Field(Key.profile, Obj(<<Field(Key.age, Num(25)), Field(Key.city, Str("SF"))>>)),
                 Field(Key.tags, Arr(<<Str("design")>>))>>),
           Obj(<<Field(Key.id, Str("64a1b2c5")), Field(Key.username, Str("bwong")),
                 Field(Key.profile, Obj(<<Field(Key.age, Num(34)), Field(Key.city, Str("London"))>>)),
                 Field(Key.tags, Arr(<<Str("hr")>>))>>)>>
    ELSE <<Obj(<<Field(Key.id, Str("99x88y77")), Field(Key.collection, Str(collection)),
                 Field(Key.status, Str("processed")),
                 Field(Key.metadata, Obj(<<Field(Key.source, Str("web"))>>))>>),
           Obj(<<Field(Key.id, Str("99x88y78")), Field(Key.collection, Str(collection)),
                 Field(Key.status, Str("pending")),
                 Field(Key.metadata, Obj(<<Field(Key.source, Str("api"))>>))>>)>>

RECURSIVE Flatten(_)
Flatten(seqs) == IF seqs = <<>> THEN <<>> ELSE Head(seqs) \o Flatten(Tail(seqs))

\* the elements of a sequence in order of first occurrence (insertion into a Set)
RECURSIVE Dedupe(_)
Dedupe(seq) ==
    IF seq = <<>>
    THEN <<>>
    ELSE LET front == Dedupe(SubSeq(seq, 1, Len(seq) - 1))
             last == seq[Len(seq)]
         IN  IF \E i \in 1..Len(front) : front[i] = last THEN front ELSE Append(front, last)

\* the names one document adds in extractColumns
DocColumns(doc) ==
    Flatten([i \in 1..Len(doc.sub) |->
        IF doc.sub[i].val.t = "object"
        THEN [j \in 1..Len(doc.sub[i].val.sub) |->
                 doc.sub[i].key \o Dot \o doc.sub[i].val.sub[j].key]
        ELSE <<doc.sub[i].key>>])

\* extractColumns
ExtractColumns(docs) == Dedupe(Flatten([i \in 1..Len(docs) |-> DocColumns(docs[i])]))

\* path.split('.')
RECURSIVE Split(_)
Split(path) ==
    IF \E i \in 1..Len(path) : path[i] = "."
    THEN LET i == CHOOSE j \in 1..Len(path) :
                     path[j] = "." /\ \A l \in 1..(j - 1) : path[l] # "."
         IN  <<SubSeq(path, 1, i - 1)>> \o Split(SubSeq(path, i + 1, Len(path)))
    ELSE <<path>>

\* prev[curr]
DocRead(prev, curr) ==
    IF prev.t = "object" /\ \E i \in 1..Len(prev.sub) : prev.sub[i].key = curr
    THEN prev.sub[CHOOSE i \in 1..Len(prev.sub) : prev.sub[i].key = curr].val
    ELSE Undef

\* segments.reduce((prev, curr) => prev && prev[curr], obj)
RECURSIVE Reduce(_, _)
Reduce(segments, prev) ==
    IF segments = <<>>
    THEN prev
    ELSE Reduce(Tail(segments), IF Truthy(prev) THEN DocRead(prev, Head(segments)) ELSE prev)

\* getNestedValue
GetNestedValue(obj, path) == Reduce(Split(path), obj)

\* the collection the query names: 'users' unless /db\.(\w+)\./ matches
CollectionName(query) ==
    IF query.includesDb /\ query.match # "" THEN query.match ELSE "users"

MongoExecuteQuery(query, elapsed) ==
    LET mockDocs == GetMockDocuments(CollectionName(query))
        columns == ExtractColumns(mockDocs)
        rows == [i \in 1..Len(mockDocs) |->
                    ArrRow([j \in 1..Len(columns) |-> GetNestedValue(mockDocs[i], columns[j])])]
    IN  Resolved(QueryResult(columns, rows, Num(Len(rows)), Num(elapsed), Undef))

\* a query text, by what the engine reads of it: whether it includes 'db.'
\* and the name the pattern captures ("" when it does not match)
MongoQueries ==
    {[includesDb |-> FALSE, match |-> ""], [includesDb |-> TRUE, match |-> ""]}
    \cup {[includesDb |-> TRUE, match |-> c] : c \in {"users", "orders", "logs", "settings", "x"}}

MongoEngine_ExecuteQuery ==
    /\ pc = "idle"
    /\ op' = "MongoEngine.executeQuery"
    /\ sent' = <<>>
    /\ outcome' = NoOutcome
    /\ credsRes' = <<>>
    /\ isMuul' = FALSE
    /\ \E query \in MongoQueries, elapsed \in {300, 301} :
         Finish(MongoExecuteQuery(query, elapsed))
    /\ UNCHANGED <<externalMessage, sch, appVars>>

(***************************************************************************)
(* MockEngine.executeQuery: a dispatcher on the substrings of the          *)
(* lower-cased SQL text.  A text is modelled by the set of the catalog     *)
(* identifiers and sentinel phrases it contains.                           *)
(***************************************************************************)
Markers ==
    {"sys.", "msdb.", "[", "blockingtree", "msdb.dbo.backupset",
     "sys.dm_db_index_physical_stats", "avg_fragmentation_in_percent",
     "sys.dm_os_wait_stats", "sys.configurations", "ring_buffer_connectivity",
     "sys.tables", "pg_", "information_schema", "blocking_tree", "datfrozenxid",
     "pg_stat_database", "pg_database_size", "pg_settings", "pg_extension", "select"}

\* the markers that are substrings of a marker
Within(m) ==
    CASE m \in {"sys.dm_db_index_physical_stats", "sys.dm_os_wait_stats",
                "sys.configurations", "sys.tables"} -> {m, "sys."}
      [] m = "msdb.dbo.backupset" -> {m, "msdb."}
      [] m \in {"pg_stat_database", "pg_database_size", "pg_settings", "pg_extension"} ->
           {m, "pg_"}
      [] OTHER -> {m}

LowerSqlTexts ==
    {UNION {Within(m) : m \in ms} : ms \in {x \in SUBSET Markers : Cardinality(x) <= MaxMarkers}}

\* lowerSql.includes(m)
Includes(lowerSql, m) == m \in lowerSql

Canned(columns, rows, rowCount, executionTimeMs) ==
    Resolved(QueryResult(columns, rows, Num(rowCount), Num(executionTimeMs), Undef))

GenericRowCount == 20

\* `Item ${i}`
Item(i) == [t |-> "string", n |-> i, s |-> "Item "]

\* the literal results of the detector blocks, by the detector that returns them
CannedResults ==
    [MssqlBlockingTree |->
        Canned(<<"SPID", "Duration ms", "Wait", "Resource", "SQL", "Detective">>,
        <<ArrRow(<<Str("54"), Num(0), Str("LCK_M_X"), Str("KEY: 5:72057594043531264 (a1b2c3d4e5f6)"),
                   Str("UPDATE Orders SET Status = 2 WHERE OrderID = 1001"), Str("ACTION_INVESTIGATE")>>),
          ArrRow(<<Str("--- 62"), Num(1500), Str("LCK_M_S"), Str("KEY: 5:72057594043531264 (a1b2c3d4e5f6)"),
                   Str("SELECT * FROM Orders WHERE OrderID = 1001"), Str("ACTION_INVESTIGATE")>>),
          ArrRow(<<Str("--- 78"), Num(3200), Str("LCK_M_U"), Str("KEY: 5:72057594043531264 (a1b2c3d4e5f6)"),
                   Str("UPDATE Orders SET Total = 50.00 WHERE OrderID = 1001"), Str("ACTION_INVESTIGATE")>>)>>,
        3, 145),
     MssqlBackups |->
        Canned(<<"database_name", "physical_device_name", "backup_start_date", "type", "Size MB">>,
        <<ArrRow(<<Str("Production_CRM"), Str("S:\\Backups\\Full\\CRM_Full.bak"),
                   Str("2023-11-01 01:00:00"), Str("D"), Dec("4500.50")>>),
          ArrRow(<<Str("Production_CRM"), Str("S:\\Backups\\Log\\CRM_Log_06.trn"),
                   Str("2023-11-01 06:00:00"), Str("L"), Dec("12.20")>>),
          ArrRow(<<Str("Production_CRM"), Str("S:\\Backups\\Diff\\CRM_Diff.bak"),
                   Str("2023-11-01 12:00:00"), Str("I"), Dec("45.80")>>),
          ArrRow(<<Str("Master"), Str("C:\\SystemDBs\\Master.bak"),
                   Str("2023-10-31 23:00:00"), Str("D"), Dec("1.50")>>)>>,
        4, 120),
     MssqlFragmentation |->
        Canned(<<"TableName", "IndexName", "Frag%", "AlterStatement">>,
        <<ArrRow(<<Str("SalesOrderHeader"), Str("PK_SalesOrderHeader"), Dec("45.2"),
                   Str("ALTER INDEX [PK_SalesOrderHeader] ON [SalesOrderHeader] REBUILD")>>),
          ArrRow(<<Str("Customer"), Str("IX_AccountNumber"), Dec("22.8"),
                   Str("ALTER INDEX [IX_AccountNumber] ON [Customer] REORGANIZE")>>),
          ArrRow(<<Str("Product"), Str("IX_ProductNumber"), Dec("38.1"),
                   Str("ALTER INDEX [IX_ProductNumber] ON [Product] REBUILD")>>)>>,
        3, 280),
     MssqlWaitStats |->
        Canned(<<"wait_type", "Wait (sec)", "Resource Wait", "Signal Wait (CPU)">>,
        <<ArrRow(<<Str("LCK_M_IX"), Dec("5420.5"), Dec("5000.0"), Dec("420.5")>>),
          ArrRow(<<Str("PAGEIOLATCH_SH"), Dec("3200.1"), Dec("3200.1"), Dec("0.0")>>),
          ArrRow(<<Str("CXPACKET"), Dec("1200.0"), Dec("100.0"), Dec("1100.0")>>)>>,
        3, 50),
     MssqlConfigurations |->
        Canned(<<"name", "value", "value_in_use", "description">>,
        <<ArrRow(<<Str("max server memory (MB)"), Num(2147483647), Num(16000),
                   Str("Maximum size of server memory (MB)")>>),
          ArrRow(<<Str("cost threshold for parallelism"), Num(5), Num(5),
                   Str("Threshold above which SQL Server creates parallel plans")>>),
          ArrRow(<<Str("max degree of parallelism"), Num(0), Num(0),
                   Str("Maximum number of processors used for parallel execution")>>),
          ArrRow(<<Str("optimize for ad hoc workloads"), Num(0), Num(0),
                   Str("Plan cache optimization")>>)>>,
        4, 15),
     MssqlRingBuffer |->
        Canned(<<"Time", "Type", "Spid", "Error">>, <<>>, 0, 80),
     MssqlTables |->
        Canned(<<"name">>,
        <<ArrRow(<<Str("SalesOrderHeader")>>), ArrRow(<<Str("Customer")>>),
          ArrRow(<<Str("Product")>>)>>,
        3, 10),
     PgBlockingTree |->
        Canned(<<"Tree PID", "state", "Age", "SQL Text", "Investigate">>,
        <<ArrRow(<<Str("1422"), Str("active"), Str("00:00:12.4"),
                   Str("BEGIN; UPDATE inventory SET stock = 0 WHERE id = 5;"),
                   Str("ACTION_INVESTIGATE")>>),
          ArrRow(<<Str("  1899"), Str("active"), Str("00:00:05.1"),
                   Str("UPDATE inventory SET stock = 10 WHERE id = 5;"),
                   Str("ACTION_INVESTIGATE")>>)>>,
        2, 120),
     PgXidAge |->
        Canned(<<"datname", "XID Age", "% to Critical Limit">>,
        <<ArrRow(<<Str("production_db"), Num(1250442100), Dec("58.21")>>),
          ArrRow(<<Str("analytics_db"), Num(120400), Dec("0.01")>>),
          ArrRow(<<Str("postgres"), Num(4500), Dec("0.00")>>)>>,
        3, 110),
     PgStatDatabase |->
        Canned(<<"datname", "Hit Ratio %", "Commits", "Rollbacks">>,
        <<ArrRow(<<Str("production_db"), Dec("99.85"), Num(150400), Num(23)>>),
          ArrRow(<<Str("postgres"), Dec("99.99"), Num(500), Num(0)>>)>>,
        2, 40),
     PgDatabaseSize |->
        Canned(<<"Database", "Pretty Size", "Bytes">>,
        <<ArrRow(<<Str("production_db"), Str("45 GB"), Dec("48318382080")>>),
          ArrRow(<<Str("postgres"), Str("12 MB"), Num(12582912)>>)>>,
        2, 35),
     PgSettings |->
        Canned(<<"name", "setting", "unit", "short_desc">>,
        <<ArrRow(<<Str("max_connections"), Str("40"), Null,
                   Str("Sets the maximum number of concurrent connections.")>>),
          ArrRow(<<Str("shared_buffers"), Str("16384"), Str("8kB"),
                   Str("Sets the number of shared memory buffers used by the server.")>>),
          ArrRow(<<Str("work_mem"), Str("4096"), Str("kB"),
                   Str("Sets the maximum memory to be used for query workspaces.")>>),
          ArrRow(<<Str("autovacuum"), Str("off"), Null, Str("Automated vacuuming.")>>)>>,
        4, 12),
     PgExtensions |->
        Canned(<<"extname", "extversion">>,
        <<ArrRow(<<Str("plpgsql"), Str("1.0")>>),
          ArrRow(<<Str("pg_stat_statements"), Str("1.9")>>),
          ArrRow(<<Str("uuid-ossp"), Str("1.1")>>)>>,
        3, 8)]

GenericRows ==
    Canned(<<"id", "name", "status", "created_at">>,
      [r \in 1..GenericRowCount |->
         ArrRow(<<Num(r - 1), Item(r - 1),
                  Str(IF (r - 1) % 2 = 0 THEN "active" ELSE "inactive"),
                  Str("2023-01-01")>>)],
      GenericRowCount, 120)

EmptyMockResult == Canned(<<>>, <<>>, 0, 50)

\* the part of the dispatcher after the two detector blocks
MockGeneric(lowerSql) ==
    IF Includes(lowerSql, "select") THEN GenericRows ELSE EmptyMockResult

\* the part of the dispatcher from the postgres detectors on
MockPostgres(lowerSql) ==
    IF \/ Includes(lowerSql, "pg_")
       \/ Includes(lowerSql, "information_schema")
       \/ Includes(lowerSql, "blocking_tree")
    THEN IF Includes(lowerSql, "blocking_tree") THEN CannedResults.PgBlockingTree
         ELSE IF Includes(lowerSql, "datfrozenxid") THEN CannedResults.PgXidAge
         ELSE IF Includes(lowerSql, "pg_stat_database") THEN CannedResults.PgStatDatabase
         ELSE IF Includes(lowerSql, "pg_database_size") THEN CannedResults.PgDatabaseSize
         ELSE IF Includes(lowerSql, "pg_settings") THEN CannedResults.PgSettings
         ELSE IF Includes(lowerSql, "pg_extension") THEN CannedResults.PgExtensions
         ELSE MockGeneric(lowerSql)
    ELSE MockGeneric(lowerSql)

MockExecuteQuery(lowerSql) ==
    IF \/ Includes(lowerSql, "sys.")
       \/ Includes(lowerSql, "msdb.")
       \/ Includes(lowerSql, "[")
       \/ Includes(lowerSql, "blockingtree")
    THEN IF Includes(lowerSql, "blockingtree") THEN CannedResults.MssqlBlockingTree
         ELSE IF Includes(lowerSql, "msdb.dbo.backupset") THEN CannedResults.MssqlBackups
         ELSE IF \/ Includes(lowerSql, "sys.dm_db_index_physical_stats")
                 \/ Includes(lowerSql, "avg_fragmentation_in_percent")
              THEN CannedResults.MssqlFragmentation
         ELSE IF Includes(lowerSql, "sys.dm_os_wait_stats") THEN CannedResults.MssqlWaitStats
         ELSE IF Includes(lowerSql, "sys.configurations") THEN CannedResults.MssqlConfigurations
         ELSE IF Includes(lowerSql, "ring_buffer_connectivity") THEN CannedResults.MssqlRingBuffer
         ELSE IF Includes(lowerSql, "sys.tables") THEN CannedResults.MssqlTables
         ELSE MockPostgres(lowerSql)
    ELSE MockPostgres(lowerSql)

MockEngine_ExecuteQuery ==
    /\ pc = "idle"
    /\ op' = "MockEngine.executeQuery"
    /\ sent' = <<>>
    /\ outcome' = NoOutcome
    /\ credsRes' = <<>>
    /\ isMuul' = FALSE
    /\ \E lowerSql \in LowerSqlTexts : Finish(MockExecuteQuery(lowerSql))
    /\ UNCHANGED <<externalMessage, sch, appVars>>

\* no schema producer is running
SchIdle ==
    [phase |-> "idle", producer |-> "none", dbType |-> Undef, dialect |-> "",
     names |-> <<>>, idx |-> 0, cols |-> NoResult, tables |-> <<>>,
     tablesQuery |-> "none", hist |-> <<>>, requests |-> <<>>]

(***************************************************************************)
(* The service as constructed: no local database, the id counter at 1.     *)
(* issued lists the ids uploadDatabase has returned, in order.             *)
(***************************************************************************)
SvcInit ==
    [virtualIdCounter |-> 1, realDatabases |-> <<>>, instances |-> <<>>,
     uploads |-> <<>>, started |-> 0, issued |-> <<>>]

NoCredential == [present |-> FALSE, id |-> "", dbType |-> Undef]
NoScript == [tables |-> NoOutcome, columns |-> NoOutcome, fks |-> NoOutcome]
ZeroStats ==
    [tableCount |-> 0, columnCount |-> 0, pkCount |-> 0, fkCount |-> 0, indexCount |-> 0]

\* no router call has been made
CallIdle ==
    [op |-> "none", dbId |-> "", cred |-> NoCredential, script |-> NoScript,
     sql |-> <<>>, arg |-> <<>>, status |-> "idle", backend |-> "none", tables |-> <<>>,
     stats |-> ZeroStats, text |-> <<>>, databases |-> <<>>, result |-> NoResult]

\* no request is outstanding
BridgeIdle == [now |-> 0, outstanding |-> <<>>]

\* App before initApp has selected a connection
AppIdle ==
    [selectedDbId |-> "", loads |-> <<>>, dbTables |-> <<>>,
     current |-> [status |-> "none", tables |-> <<>>]]

\* localStorage.getItem(KEY) of a profile that never saved a snapshot: null
\* calls and last are history kept for the properties: how many calls the
\* service has taken, and the call taken last with the records it found
NoStorage ==
    [present |-> FALSE, records |-> <<>>, calls |-> 0,
     last |-> [op |-> "none", dbId |-> "", id |-> [prefix |-> "", ms |-> 0],
               before |-> <<>>]]

\* nothing has been dropped on the editor
EditorIdle ==
    [schema |-> <<>>, content |-> <<>>, pendingJoins |-> <<>>, isJoinBuilderOpen |-> FALSE,
     last |-> [op |-> "none", tableNames |-> <<>>, before |-> <<>>,
                            scores |-> <<>>]]

(***************************************************************************)
(* The page has loaded, in a host with or without the bridge, and no       *)
(* operation has started.                                                  *)
(***************************************************************************)
Init ==
    /\ externalMessage \in {"undefined", "noSend", "hasSend"}
    /\ op = "none"
    /\ pc = "idle"
    /\ sent = <<>>
    /\ outcome = NoOutcome
    /\ qres = NoResult
    /\ credsRes = <<>>
    /\ isMuul = FALSE
    /\ sch = SchIdle
    /\ svc = SvcInit
    /\ call = CallIdle
    /\ bridge = BridgeIdle
    /\ editor = EditorIdle
    /\ app = AppIdle
    /\ storage = NoStorage

\* the caller's await takes the settled value; the call site is free again
Return ==
    /\ pc \in {"resolved", "rejected"}
    /\ op' = "none"
    /\ pc' = "idle"
    /\ sent' = <<>>
    /\ outcome' = NoOutcome
    /\ qres' = NoResult
    /\ credsRes' = <<>>
    /\ isMuul' = FALSE
    /\ UNCHANGED <<externalMessage, sch, appVars>>

(***************************************************************************)
(* QuerySpec: the execution entry points and the bridge helpers, one       *)
(* operation at a time.                                                    *)
(***************************************************************************)
QueryNext ==
    \/ ExecuteRemoteQuery_Call
    \/ ExecuteRemoteQuery_Settle
    \/ FetchSavedCredentials_Call
    \/ FetchSavedCredentials_Settle
    \/ DetectMuulBrowser_Call
    \/ DetectMuulBrowser_Settle
    \/ SqliteEngine_ExecuteQuery
    \/ MongoEngine_ExecuteQuery
    \/ MockEngine_ExecuteQuery
    \/ Return

QuerySpec == Init /\ [][QueryNext]_vars

(***************************************************************************)
(* Properties of the execution entry points, checked under QuerySpec.      *)
(***************************************************************************)
QueryOps ==
    {"executeRemoteQuery", "SqliteEngine.executeQuery", "MongoEngine.executeQuery",
     "MockEngine.executeQuery"}

BridgeOps == {"executeRemoteQuery", "fetchSavedCredentials", "detectMuulBrowser"}

RemoteDone == op = "executeRemoteQuery" /\ pc \in {"resolved", "rejected"}

\* the bridge reply of the settled remote call had a truthy ok
RepliedOk == outcome.kind = "reply" /\ outcome.reply.k = "object" /\ Truthy(outcome.reply.ok)

\* the bridge call failed: no send function, a throw, a rejection, a null or
\* undefined reply, or a reply whose ok is not true
BridgeFailed == externalMessage # "hasSend" \/ ~RepliedOk

NonEmptyString(v) == v.t = "string" /\ v.s # ""

\* C1: executeRemoteQuery never rejects: whenever the bridge call fails (send
\* absent, send throws, the promise rejects with any value, the reply is null or
\* undefined, or ok is false) the call resolves to a QueryResult whose error is
\* a non-empty string and whose rows and columns are empty.
C1_NeverRejects ==
    (RemoteDone /\ BridgeFailed) =>
        /\ pc = "resolved"
        /\ NonEmptyString(qres.error)
        /\ qres.rows = <<>>
        /\ qres.columns = <<>>

\* C2: when window.externalMessage.send is absent, none of executeRemoteQuery,
\* fetchSavedCredentials and detectMuulBrowser invokes send, none of them is
\* left suspended or rejected, and each completes with its empty value: an
\* error QueryResult, the empty array, false.
C2_AbsentSendNeverInvoked ==
    (externalMessage # "hasSend" /\ op \in BridgeOps) =>
        /\ sent = <<>>
        /\ pc = "resolved"
        /\ (op = "executeRemoteQuery" /\ pc = "resolved") =>
               /\ NonEmptyString(qres.error)
               /\ qres.rows = <<>>
               /\ qres.columns = <<>>
        /\ (op = "fetchSavedCredentials" /\ pc = "resolved") => credsRes = <<>>
        /\ (op = "detectMuulBrowser" /\ pc = "resolved") => isMuul = FALSE

C2_Witness ==
    /\ externalMessage = "noSend"
    /\ op = "executeRemoteQuery"
    /\ pc = "resolved"
    /\ qres.error = Str("Muul Browser bridge not detected.")

\* C3: every QueryResult of executeRemoteQuery for a reply with ok true, and
\* every result of the simulation and document-store engines, has uniform row
\* arity: each row is a tuple whose length is columns.length.
C3_UniformRowArity ==
    (pc = "resolved" /\ op \in {"executeRemoteQuery", "MockEngine.executeQuery",
                                "MongoEngine.executeQuery"}) =>
        \A i \in 1..Len(qres.rows) :
            /\ qres.rows[i].k = "array"
            /\ Len(qres.rows[i].items) = Len(qres.columns)

\* C4: in every QueryResult of executeRemoteQuery and of the three engines, a
\* set error field implies empty rows, empty columns and rowCount 0, and a
\* result with rows carries no error, also when the ok reply had an error field.
C4_ErrorExcludesRows ==
    (pc = "resolved" /\ op \in QueryOps) =>
        /\ qres.error # Undef =>
               (qres.rows = <<>> /\ qres.columns = <<>> /\ qres.rowCount = Num(0))
        /\ Len(qres.rows) > 0 => qres.error = Undef

C4_Witness ==
    /\ op = "executeRemoteQuery"
    /\ pc = "resolved"
    /\ RepliedOk
    /\ outcome.reply.error = Str("denied")
    /\ Len(qres.rows) > 0
    /\ qres.error = Undef

\* the reply has no or an empty columns list and a non-empty array of row objects
RowObjectsWithoutColumns ==
    /\ RepliedOk
    /\ (~outcome.reply.columns.has \/ outcome.reply.columns.v = <<>>)
    /\ outcome.reply.rows.has
    /\ Len(outcome.reply.rows.v) > 0
    /\ \A i \in 1..Len(outcome.reply.rows.v) : outcome.reply.rows.v[i].k = "object"

\* C5: for an ok reply without columns whose rows are row objects, the
\* result's columns are the keys of the first row object in enumeration order
\* and row i is the tuple of row object i's values read by those keys, undefined
\* where it lacks the key; keys only later objects have are dropped.  The reply
\* {ok: true, rows: [{a: 1, b: "x"}]} gives columns ["a", "b"], rows [[1, "x"]].
C5_ColumnInference ==
    /\ (RemoteDone /\ RowObjectsWithoutColumns) =>
        LET in == outcome.reply.rows.v
            first == in[1].fields
        IN  /\ pc = "resolved"
            /\ qres.error = Undef
            /\ Len(qres.columns) = Len(first)
            /\ \A j \in 1..Len(first) : qres.columns[j] = first[j].key
            /\ Len(qres.rows) = Len(in)
            /\ \A i \in 1..Len(in) :
                 /\ qres.rows[i].k = "array"
                 /\ Len(qres.rows[i].items) = Len(first)
                 /\ \A j \in 1..Len(first) :
                      LET hits == {f \in 1..Len(in[i].fields) : in[i].fields[f].key = first[j].key}
                      IN  IF hits = {}
                          THEN qres.rows[i].items[j] = Undef
                          ELSE \E f \in hits : qres.rows[i].items[j] = in[i].fields[f].val
    /\ (RemoteDone /\ outcome = Replied(ExampleReply)) =>
        /\ qres.columns = <<"a", "b">>
        /\ qres.rows = <<ArrRow(<<Num(1), Str("x")>>)>>

\* a first object {b} and a later object {a}: a is dropped, b is undefined
C5_Witness ==
    /\ RemoteDone
    /\ RowObjectsWithoutColumns
    /\ Len(outcome.reply.rows.v) = 2
    /\ outcome.reply.rows.v[1].fields = <<Field("b", Num(12))>>
    /\ outcome.reply.rows.v[2].fields = <<Field("a", Num(21))>>
    /\ qres.columns = <<"b">>
    /\ qres.rows = <<ArrRow(<<Num(12)>>), ArrRow(<<Undef>>)>>

\* C6: for an ok reply, the result's rowCount is the reply's rowCount whenever
\* the reply carries one, a rowCount of 0 included, and the number of rows only
\* when it carries none; executionTimeMs is the reply's value, or 0 when absent.
C6_RowCountFromReply ==
    (RemoteDone /\ RepliedOk /\ pc = "resolved" /\ qres.error = Undef) =>
        /\ qres.rowCount =
               IF outcome.reply.rowCount # Undef
               THEN outcome.reply.rowCount
               ELSE Num(Len(qres.rows))
        /\ qres.executionTimeMs =
               IF outcome.reply.executionTimeMs # Undef
               THEN outcome.reply.executionTimeMs
               ELSE Num(0)

(***************************************************************************)
(* Schemas.  references.present tells whether the column carries a         *)
(* references object.                                                      *)
(***************************************************************************)
NoReference == [present |-> FALSE, table |-> Undef, column |-> Undef]
Reference(table, column) == [present |-> TRUE, table |-> table, column |-> column]

Column(name, type, isPrimaryKey, isForeignKey, references) ==
    [name |-> name, type |-> type, isPrimaryKey |-> isPrimaryKey,
     isForeignKey |-> isForeignKey, references |-> references]

Table(name, columns) == [name |-> name, columns |-> columns]

(***************************************************************************)
(* String conversions, over the strings the model uses.                    *)
(***************************************************************************)
\* String.prototype.toLowerCase
ToLowerCase(x) ==
    CASE x \in {"SQLServer", "SQLSERVER"} -> "sqlserver"
      [] x = "Postgres" -> "postgres"
      [] x = "MySQL" -> "mysql"
      [] x = "Oracle" -> "oracle"
      [] x = "Field" -> "field"
      [] x = "Type" -> "type"
      [] x = "Null" -> "null"
      [] x = "Key" -> "key"
      [] x = "NAME" -> "name"
      [] x = "TABLE_NAME" -> "table_name"
      [] x = "ID" -> "id"
      [] x = "SELECT" -> "select"
      [] x = "FROM" -> "from"
      [] OTHER -> x

\* String.prototype.toUpperCase
ToUpperCase(x) ==
    CASE x \in {"pri", "Pri"} -> "PRI"
      [] x = "mul" -> "MUL"
      [] OTHER -> x

\* ToNumber(v) > 0
GreaterThanZero(v) ==
    CASE v.t = "number" -> v.n > 0
      [] v.t = "boolean" -> v.n = 1
      [] v.t = "string" -> v.s \in {"1", "2"}
      [] OTHER -> FALSE

(***************************************************************************)
(* The dialect registry, by what schema discovery reads of it.             *)
(***************************************************************************)
DialectTags == {"postgres", "mysql", "sqlite", "mssql", "mongodb", "parquet"}

\* DialectRegistry[tag] is defined
HasDialect(tag) == tag \in DialectTags

\* the statement a template of a dialect gives; mongodb and parquet have
\* empty templates
Statement(tag, template, table) ==
    IF tag \in {"mongodb", "parquet"}
    THEN [dialect |-> tag, template |-> "", table |-> Undef]
    ELSE [dialect |-> tag, template |-> template, table |-> table]

GetTables(tag) == Statement(tag, "getTables", Undef)
GetColumns(tag, table) == Statement(tag, "getColumns", table)
GetForeignKeys(tag, table) == Statement(tag, "getForeignKeys", table)

\* credential.dbType?.toLowerCase()
LowerDbType(dbType) == IF dbType.t = "string" THEN Str(ToLowerCase(dbType.s)) ELSE Undef

\* the dialect tag of a credential: in getRemoteDatabaseSchema and getDialectForDb
DbTypeStr(dbType) ==
    IF LowerDbType(dbType) = Str("sqlserver")
    THEN "mssql"
    ELSE JsOr(LowerDbType(dbType), Str("postgres")).s

(***************************************************************************)
(* MuulService.getRemoteDatabaseSchema.                                    *)
(***************************************************************************)
\* row[i], i counted from 0
RowAt(row, i) ==
    CASE row.k = "array" -> IF i + 1 <= Len(row.items) THEN row.items[i + 1] ELSE Undef
      [] row.k = "object" -> ReadKey(row, IndexKey(i))
      [] OTHER -> Undef

\* the object toObjects builds of one row: obj[col.toLowerCase()] = row[i]
ToObject(columns, row) ==
    LET lower == [i \in 1..Len(columns) |-> ToLowerCase(columns[i])]
        keys == Dedupe(lower)
        lastAt(key) == CHOOSE i \in 1..Len(lower) :
                          lower[i] = key /\ \A j \in (i + 1)..Len(lower) : lower[j] # key
    IN  ObjRow([j \in 1..Len(keys) |-> Field(keys[j], RowAt(row, lastAt(keys[j]) - 1))])

\* toObjects
ToObjects(res) == [i \in 1..Len(res.rows) |-> ToObject(res.columns, res.rows[i])]

\* toObjects reads an index of a null row
ToObjectsThrows(res) ==
    Len(res.columns) > 0 /\ \E i \in 1..Len(res.rows) : res.rows[i].k = "null"

\* row.name || (firstColName ? row[firstColName] : undefined), kept when truthy
TableNames(tablesResult) ==
    LET tableObjects == ToObjects(tablesResult)
        firstColName == IF Len(tablesResult.columns) > 0
                        THEN ToLowerCase(tablesResult.columns[1])
                        ELSE ""
        nameOf(row) == JsOr(ReadKey(row, "name"),
                            IF firstColName # "" THEN ReadKey(row, firstColName) ELSE Undef)
    IN  SelectSeq([i \in 1..Len(tableObjects) |-> nameOf(tableObjects[i])], Truthy)

\* isPk of a column row under mysql throws when key is truthy and no string
PrimaryKeyThrows(dbTypeStr, colRow) ==
    /\ dbTypeStr = "mysql"
    /\ Truthy(ReadKey(colRow, "key"))
    /\ ReadKey(colRow, "key").t # "string"

\* isPk of a column row
IsPrimaryKey(dbTypeStr, colRow) ==
    IF dbTypeStr = "sqlite"
    THEN GreaterThanZero(ReadKey(colRow, "pk"))
    ELSE IF dbTypeStr = "postgres" \/ dbTypeStr = "mssql"
         THEN ReadKey(colRow, "pk") = Num(1) \/ ReadKey(colRow, "pk") = Bool(TRUE)
         ELSE IF dbTypeStr = "mysql"
              THEN ToUpperCase(JsOr(ReadKey(colRow, "key"), Str("")).s) = "PRI"
              ELSE FALSE

\* colRow.name || colRow.field || colRow.column_name
ColumnName(colRow) ==
    JsOr(JsOr(ReadKey(colRow, "name"), ReadKey(colRow, "field")), ReadKey(colRow, "column_name"))

\* colRow.type || colRow.data_type
ColumnType(colRow) == JsOr(ReadKey(colRow, "type"), ReadKey(colRow, "data_type"))

\* fksData.find(fk => fk.from === name) found an edge
HasFkDef(fksData, name) == \E i \in 1..Len(fksData) : ReadKey(fksData[i], "from") = name

FkDef(fksData, name) ==
    fksData[CHOOSE i \in 1..Len(fksData) :
               /\ ReadKey(fksData[i], "from") = name
               /\ \A j \in 1..(i - 1) : ReadKey(fksData[j], "from") # name]

\* the column definition with isForeignKey set and no references object
ColumnOf_NoReference(dbTypeStr, colRow, fksData) ==
    Column(ColumnName(colRow), ColumnType(colRow), IsPrimaryKey(dbTypeStr, colRow),
           HasFkDef(fksData, ColumnName(colRow)), NoReference)

\* the column definition of a column row
ColumnOf(dbTypeStr, colRow, fksData) ==
    LET name == ColumnName(colRow)
    IN  Column(name, ColumnType(colRow), IsPrimaryKey(dbTypeStr, colRow),
               HasFkDef(fksData, name),
               IF HasFkDef(fksData, name)
               THEN Reference(ReadKey(FkDef(fksData, name), "table"),
                              ReadKey(FkDef(fksData, name), "to"))
               ELSE NoReference)

\* the columns of a table, from its columns result and its foreign keys
ColumnsOf(dbTypeStr, colsResult, fksData) ==
    LET colRows == ToObjects(colsResult)
    IN  [i \in 1..Len(colRows) |-> ColumnOf(dbTypeStr, colRows[i], fksData)]

ColumnsThrow(dbTypeStr, colsResult) ==
    \/ ToObjectsThrows(colsResult)
    \/ \E i \in 1..Len(colsResult.rows) :
         PrimaryKeyThrows(dbTypeStr, ToObject(colsResult.columns, colsResult.rows[i]))

(***************************************************************************)
(* getRemoteDatabaseSchema as the steps of a call, one per await.  The     *)
(* record sch holds the locals of the call:                                *)
(*   phase     "idle", "tables", "columns", "fks" (the request awaited),   *)
(*             "done" (resolved) or "rejected"                             *)
(*   names     tableNames;  idx  the table of the loop;  cols  colsResult  *)
(*   tables    the tables pushed so far                                    *)
(* and, as history, the requests sent and what each table's queries gave.  *)
(***************************************************************************)
SchemaState(producer, dbType) ==
    [phase |-> "done", producer |-> producer, dbType |-> dbType, dialect |-> "",
     names |-> <<>>, idx |-> 0, cols |-> NoResult, tables |-> <<>>,
     tablesQuery |-> "none", hist |-> <<>>, requests |-> <<>>]

\* what one table's queries gave: "ok" or "error" each, fks "none" when not sent
TableHistory(table, cols, fks, colsResult, fksResult) ==
    [table |-> table, cols |-> cols, fks |-> fks,
     colsResult |-> colsResult, fksResult |-> fksResult]

\* the loop goes to the table after idx, or the call returns
Advance(s) ==
    IF s.idx < Len(s.names)
    THEN [s EXCEPT !.phase = "columns", !.idx = s.idx + 1, !.cols = NoResult,
                   !.requests = Append(s.requests, GetColumns(s.dialect, s.names[s.idx + 1]))]
    ELSE [s EXCEPT !.phase = "done", !.cols = NoResult]

\* up to the await of the list-tables query
SchemaStarted(em, dbType) ==
    LET s == SchemaState("remote", dbType)
        dbTypeStr == DbTypeStr(dbType)
    IN  IF ~HasDialect(dbTypeStr)
        THEN [s EXCEPT !.dialect = dbTypeStr]
        ELSE IF ~HasSend(em)
             THEN [s EXCEPT !.dialect = dbTypeStr, !.tablesQuery = "error"]
             ELSE [s EXCEPT !.dialect = dbTypeStr, !.phase = "tables",
                            !.requests = <<GetTables(dbTypeStr)>>]

\* from the list-tables reply to the await of the first columns query
AfterTables(s, out) ==
    LET tablesResult == AfterSend(out)
    IN  IF tablesResult.status = "rejected"
        THEN [s EXCEPT !.phase = "rejected", !.tablesQuery = "rejected"]
        ELSE IF Truthy(tablesResult.value.error)
             THEN [s EXCEPT !.phase = "done", !.tablesQuery = "error"]
             ELSE IF ToObjectsThrows(tablesResult.value)
                  THEN [s EXCEPT !.phase = "rejected", !.tablesQuery = "ok"]
                  ELSE Advance([s EXCEPT !.tablesQuery = "ok",
                                         !.names = TableNames(tablesResult.value)])

\* from a columns reply to the await of the foreign-key query, or to the next table
AfterColumns(s, out) ==
    LET colsResult == AfterSend(out)
        tableName == s.names[s.idx]
    IN  IF colsResult.status = "rejected"
        THEN [s EXCEPT !.phase = "rejected",
                       !.hist = Append(s.hist, TableHistory(tableName, "rejected", "none",
                                                            NoResult, NoResult))]
        ELSE IF Truthy(colsResult.value.error)
             THEN Advance([s EXCEPT !.hist = Append(s.hist,
                               TableHistory(tableName, "error", "none", NoResult, NoResult))])
             ELSE [s EXCEPT !.phase = "fks", !.cols = colsResult.value,
                            !.requests = Append(s.requests,
                                                GetForeignKeys(s.dialect, tableName))]

\* from a foreign-key reply to the push of the table and on
AfterForeignKeys(s, out) ==
    LET fksResult == AfterSend(out)
        tableName == s.names[s.idx]
        failed == Truthy(fksResult.value.error)
        fksData == IF failed THEN <<>> ELSE ToObjects(fksResult.value)
    IN  IF fksResult.status = "rejected"
        THEN [s EXCEPT !.phase = "rejected",
                       !.hist = Append(s.hist, TableHistory(tableName, "ok", "rejected",
                                                            s.cols, NoResult))]
        ELSE IF \/ (~failed /\ ToObjectsThrows(fksResult.value))
                \/ ColumnsThrow(s.dialect, s.cols)
             THEN [s EXCEPT !.phase = "rejected",
                            !.hist = Append(s.hist,
                                TableHistory(tableName, "ok", IF failed THEN "error" ELSE "ok",
                                             s.cols, fksResult.value))]
             ELSE Advance([s EXCEPT
                     !.tables = Append(s.tables,
                                       Table(tableName, ColumnsOf(s.dialect, s.cols, fksData))),
                     !.hist = Append(s.hist,
                                TableHistory(tableName, "ok", IF failed THEN "error" ELSE "ok",
                                             s.cols, fksResult.value))])

(***************************************************************************)
(* The credentials and the bridge replies schema discovery is run on.      *)
(***************************************************************************)
DbTypes ==
    {Undef, Str(""), Str("postgres"), Str("Postgres"), Str("sqlserver"), Str("SQLServer"),
     Str("mssql"), Str("mysql"), Str("MySQL"), Str("sqlite"), Str("mongodb"),
     Str("parquet"), Str("oracle")}

TupleReply(columns, rows) == Reply(Bool(TRUE), Present(columns), Present(rows), Undef, Undef, Undef)
ObjectReply(rows) == Reply(Bool(TRUE), Absent, Present(rows), Undef, Undef, Undef)

\* a query that fails: ok false, a rejection with an Error, a rejection with null
FailedOutcomes ==
    {Replied(Reply(Bool(FALSE), Absent, Absent, Undef, Undef, Str("denied"))),
     RejectedWith(ErrObject(Str("boom"))),
     RejectedWith(ErrNull)}

TableNamePool == <<"users", "orders", "items">>

NameRows(n) == [i \in 1..n |-> ArrRow(<<Str(TableNamePool[i])>>)]

TablesOutcomes ==
    FailedOutcomes
    \cup {Replied(TupleReply(<<"name">>, NameRows(n))) : n \in 0..MaxTables}
    \cup {Replied(TupleReply(<<"TABLE_NAME">>, NameRows(MaxTables))),
          Replied(ObjectReply(<<ObjRow(<<Field("name", Str("users"))>>)>>)),
          Replied(TupleReply(<<"name">>, <<ArrRow(<<Str("")>>), ArrRow(<<Str("users")>>)>>)),
          Replied(TupleReply(<<"name">>, <<NullRow>>))}

\* the failures, and four ok replies: name, type, pk with each kind of pk
\* value; the shape of DESCRIBE (Field, Type, Null, Key); row objects without
\* a columns list and without a pk or key field; a key that is no string
ColumnsOutcomes ==
    FailedOutcomes
    \cup {Replied(
          TupleReply(<<"name", "type", "pk">>,
            <<ArrRow(<<Str("id"), Str("int"), Num(1)>>),
              ArrRow(<<Str("a"), Str("text"), Num(0)>>),
              ArrRow(<<Str("b"), Str("text"), Num(2)>>),
              ArrRow(<<Str("c"), Str("text"), Bool(TRUE)>>),
              ArrRow(<<Str("d"), Str("text"), Bool(FALSE)>>),
              ArrRow(<<Str("e"), Str("text"), Str("1")>>),
              ArrRow(<<Str("f"), Str("text"), Null>>)>>)),
          Replied(
          TupleReply(<<"Field", "Type", "Null", "Key">>,
            <<ArrRow(<<Str("id"), Str("int"), Str("NO"), Str("PRI")>>),
              ArrRow(<<Str("a"), Str("int"), Str("NO"), Str("pri")>>),
              ArrRow(<<Str("b"), Str("int"), Str("YES"), Str("MUL")>>),
              ArrRow(<<Str("c"), Str("text"), Str("YES"), Str("")>>)>>)),
          Replied(
          ObjectReply(<<ObjRow(<<Field("column_name", Str("id")), Field("data_type", Str("int"))>>),
                        ObjRow(<<Field("data_type", Str("text"))>>)>>)),
          Replied(
          TupleReply(<<"name", "type", "pk", "key">>,
            <<ArrRow(<<Str("id"), Str("int"), Num(1), Num(1)>>)>>))}

ForeignKeysOutcomes ==
    FailedOutcomes
    \cup {Replied(TupleReply(<<"from", "table", "to">>, <<>>)),
          Replied(TupleReply(<<"from", "table", "to">>,
                    <<ArrRow(<<Str("a"), Str("users"), Str("id")>>),
                      ArrRow(<<Str("a"), Str("orders"), Str("id")>>),
                      ArrRow(<<Str("zz"), Str("items"), Str("id")>>)>>)),
          Replied(ObjectReply(<<ObjRow(<<Field("table", Str("users")),
                                         Field("to", Str("id"))>>)>>))}

GetRemoteDatabaseSchema_Start ==
    /\ sch.phase = "idle"
    /\ \E dbType \in DbTypes : sch' = SchemaStarted(externalMessage, dbType)
    /\ UNCHANGED <<queryVars, appVars>>

GetRemoteDatabaseSchema_Tables ==
    /\ sch.phase = "tables"
    /\ \E out \in TablesOutcomes : sch' = AfterTables(sch, out)
    /\ UNCHANGED <<queryVars, appVars>>

GetRemoteDatabaseSchema_Columns ==
    /\ sch.phase = "columns"
    /\ \E out \in ColumnsOutcomes : sch' = AfterColumns(sch, out)
    /\ UNCHANGED <<queryVars, appVars>>

GetRemoteDatabaseSchema_ForeignKeys ==
    /\ sch.phase = "fks"
    /\ \E out \in ForeignKeysOutcomes : sch' = AfterForeignKeys(sch, out)
    /\ UNCHANGED <<queryVars, appVars>>

(***************************************************************************)
(* SqliteEngine.getSchema.  A database is what exec returns for the        *)
(* catalog statement and for the two pragmas of each table.                *)
(***************************************************************************)
SqliteDatabase(tablesRes, tableInfo, foreignKeyList) ==
    [tablesRes |-> tablesRes, tableInfo |-> tableInfo, foreignKeyList |-> foreignKeyList]

\* fkRes.length > 0 ? fkRes[0].values.map(row => ({from: row[3], table: row[2], to: row[4]})) : []
SqliteFks(fkRes) ==
    IF Len(fkRes.sets) > 0
    THEN [i \in 1..Len(fkRes.sets[1].values) |->
             ObjRow(<<Field("from", RowAt(fkRes.sets[1].values[i], 3)),
                      Field("table", RowAt(fkRes.sets[1].values[i], 2)),
                      Field("to", RowAt(fkRes.sets[1].values[i], 4))>>)]
    ELSE <<>>

\* the column definition of one table_info row
SqliteColumn(row, fks) ==
    LET name == RowAt(row, 1)
    IN  Column(name, RowAt(row, 2), GreaterThanZero(RowAt(row, 5)),
               HasFkDef(fks, name),
               IF HasFkDef(fks, name)
               THEN Reference(ReadKey(FkDef(fks, name), "table"),
                              ReadKey(FkDef(fks, name), "to"))
               ELSE NoReference)

\* tablesRes[0].values.flat()
SqliteTableNames(tablesRes) ==
    Flatten([i \in 1..Len(tablesRes.sets[1].values) |-> tablesRes.sets[1].values[i].items])

\* a statement of the loop throws, or colsRes[0] is undefined
SqliteTableThrows(db, tableName) ==
    \/ db.tableInfo[tableName].kind = "throw"
    \/ db.foreignKeyList[tableName].kind = "throw"
    \/ Len(db.tableInfo[tableName].sets) = 0

SqliteTable(db, tableName) ==
    LET fks == SqliteFks(db.foreignKeyList[tableName])
        values == db.tableInfo[tableName].sets[1].values
    IN  Table(tableName, [i \in 1..Len(values) |-> SqliteColumn(values[i], fks)])

SqliteGetSchema(known, db) ==
    IF ~known
    THEN <<>>
    ELSE IF db.tablesRes.kind = "throw"
         THEN <<>>
         ELSE IF Len(db.tablesRes.sets) = 0
              THEN <<>>
              ELSE LET tableNames == SqliteTableNames(db.tablesRes)
                   IN  IF \E i \in 1..Len(tableNames) : SqliteTableThrows(db, tableNames[i])
                       THEN <<>>
                       ELSE [i \in 1..Len(tableNames) |-> SqliteTable(db, tableNames[i])]

\* exec results of the catalog statement
SqliteTablesResults ==
    {ExecThrew(Str("database disk image is malformed")), ExecReturned(<<>>)}
    \cup {ExecReturned(<<ResultSet(<<"name">>, NameRows(n))>>) : n \in 1..MaxTables}

\* exec results of PRAGMA table_info
TableInfoResults ==
    {ExecThrew(Str("no such table")),
     ExecReturned(<<>>),
     ExecReturned(<<ResultSet(<<"cid", "name", "type", "notnull", "dflt_value", "pk">>,
        <<ArrRow(<<Num(0), Str("id"), Str("INTEGER"), Num(1), Null, Num(1)>>),
          ArrRow(<<Num(1), Str("user_id"), Str("INTEGER"), Num(0), Null, Num(0)>>),
          ArrRow(<<Num(2), Str("sku"), Str("TEXT"), Num(0), Null, Num(2)>>)>>)>>)}

\* exec results of PRAGMA foreign_key_list
ForeignKeyListResults ==
    {ExecThrew(Str("no such table")),
     ExecReturned(<<>>),
     ExecReturned(<<ResultSet(<<"id", "seq", "table", "from", "to", "on_update", "on_delete", "match">>,
        <<ArrRow(<<Num(0), Num(0), Str("users"), Str("user_id"), Str("id"),
                   Str("NO ACTION"), Str("NO ACTION"), Str("NONE")>>)>>)>>)}

\* the first table has its own pragma results, the others share theirs
SqliteDatabases ==
    LET names == {Str(TableNamePool[i]) : i \in 1..Len(TableNamePool)}
    IN
    {SqliteDatabase(t, [n \in names |-> IF n = Str(TableNamePool[1]) THEN c1 ELSE c2],
                       [n \in names |-> IF n = Str(TableNamePool[1]) THEN f1 ELSE f2]) :
        t \in SqliteTablesResults, c1 \in TableInfoResults, c2 \in TableInfoResults,
        f1 \in ForeignKeyListResults, f2 \in ForeignKeyListResults}

SqliteEngine_GetSchema ==
    /\ sch.phase = "idle"
    /\ \E known \in BOOLEAN, db \in SqliteDatabases :
         sch' = [SchemaState("sqlite", Undef) EXCEPT !.tables = SqliteGetSchema(known, db)]
    /\ UNCHANGED <<queryVars, appVars>>

(***************************************************************************)
(* MockEngine.getSchema: two literal schemas.                              *)
(***************************************************************************)
MockGetSchema(dbId) ==
    IF dbId = "db-mssql"
    THEN <<Table(Str("SalesOrderHeader"),
             <<Column(Str("SalesOrderID"), Str("int"), TRUE, FALSE, NoReference),
               Column(Str("OrderDate"), Str("datetime"), FALSE, FALSE, NoReference),
               Column(Str("CustomerID"), Str("int"), FALSE, TRUE,
                      Reference(Str("Customer"), Str("CustomerID"))),
               Column(Str("TotalDue"), Str("money"), FALSE, FALSE, NoReference)>>)>>
    ELSE <<Table(Str("users"),
             <<Column(Str("id"), Str("uuid"), TRUE, FALSE, NoReference),
               Column(Str("email"), Str("varchar"), FALSE, FALSE, NoReference)>>),
           Table(Str("audit_log_heap"),
             <<Column(Str("event_id"), Str("uuid"), FALSE, FALSE, NoReference),
               Column(Str("payload"), Str("text"), FALSE, FALSE, NoReference)>>)>>

DbIds == {"db-mssql", "db-postgres", "db-mongo", "user-db-1"}

MockEngine_GetSchema ==
    /\ sch.phase = "idle"
    /\ \E dbId \in DbIds :
         sch' = [SchemaState("mock", Undef) EXCEPT !.tables = MockGetSchema(dbId)]
    /\ UNCHANGED <<queryVars, appVars>>

(***************************************************************************)
(* MongoEngine.getSchema: the columns of the first document of each        *)
(* collection.                                                             *)
(***************************************************************************)
\* String.prototype.endsWith
EndsWith(c, suffix) ==
    /\ Len(c) >= Len(suffix)
    /\ SubSeq(c, Len(c) - Len(suffix) + 1, Len(c)) = suffix

\* the column definition of one extracted name; no references is set
MongoColumn(c) ==
    Column(c, Str("bson"), c = Key.id, EndsWith(c, Key.id) /\ c # Key.id, NoReference)

Collections == <<"users", "orders", "logs", "settings">>

MongoTable(name) ==
    LET sampleDocs == SubSeq(GetMockDocuments(name), 1, 1)
        cols == ExtractColumns(sampleDocs)
    IN  Table(Str(name), [i \in 1..Len(cols) |-> MongoColumn(cols[i])])

MongoGetSchema(dbId) == [i \in 1..Len(Collections) |-> MongoTable(Collections[i])]

MongoEngine_GetSchema ==
    /\ sch.phase = "idle"
    /\ \E dbId \in DbIds :
         sch' = [SchemaState("mongo", Undef) EXCEPT !.tables = MongoGetSchema(dbId)]
    /\ UNCHANGED <<queryVars, appVars>>

(***************************************************************************)
(* SqliteEngine.getStats and the fold of MuulService.calculateStatsFromSchema *)
(***************************************************************************)
CalculateStatsFromSchema_SharedCount(tables) ==
    LET cols == Flatten([k \in 1..Len(tables) |-> tables[k].columns])
        isKey(c) == c.isPrimaryKey \/ c.isForeignKey
    IN  [tableCount |-> Len(tables), columnCount |-> Len(cols),
         pkCount |-> Len(SelectSeq(cols, isKey)), fkCount |-> Len(SelectSeq(cols, isKey)),
         indexCount |-> Len(SelectSeq(cols, isKey))]

\* calculateStatsFromSchema
CalculateStatsFromSchema(tables) ==
    LET cols == Flatten([k \in 1..Len(tables) |-> tables[k].columns])
        isPk(c) == c.isPrimaryKey
        isFk(c) == c.isForeignKey
    IN  [tableCount |-> Len(tables), columnCount |-> Len(cols),
         pkCount |-> Len(SelectSeq(cols, isPk)), fkCount |-> Len(SelectSeq(cols, isFk)),
         indexCount |-> Len(SelectSeq(cols, isPk))]

\* SqliteEngine.getStats: the fold over getSchema with the catalog's index
\* count; zeros when the instance is unknown or the index statement throws
\* or gives a result set without a row
SqliteGetStats(known, db, indexRes) ==
    IF ~known
    THEN ZeroStats
    ELSE IF indexRes.kind = "throw"
         THEN ZeroStats
         ELSE IF Len(indexRes.sets) > 0 /\ Len(indexRes.sets[1].values) = 0
              THEN ZeroStats
              ELSE [CalculateStatsFromSchema(SqliteGetSchema(known, db)) EXCEPT
                       !.indexCount = IF Len(indexRes.sets) > 0
                                      THEN RowAt(indexRes.sets[1].values[1], 0).n
                                      ELSE 0]

\* exec results of the index count
IndexResults ==
    {ExecThrew(Str("database disk image is malformed")),
     ExecReturned(<<>>),
     ExecReturned(<<ResultSet(<<"count(*)">>, <<>>)>>),
     ExecReturned(<<ResultSet(<<"count(*)">>, <<ArrRow(<<Num(3)>>)>>)>>)}

\* getStats called on the engine; the call record keeps what the instance
\* map and the catalog answered
SqliteEngine_GetStats ==
    /\ sch.phase = "idle"
    /\ \E known \in BOOLEAN, db \in SqliteDatabases, indexRes \in IndexResults :
         /\ sch' = [SchemaState("sqlite", Undef) EXCEPT !.tables = SqliteGetSchema(known, db)]
         /\ call' = [CallIdle EXCEPT
                        !.op = "getStats", !.status = "resolved", !.backend = "sqlite",
                        !.arg = [known |-> known, db |-> db, indexRes |-> indexRes],
                        !.tables = SqliteGetSchema(known, db),
                        !.stats = SqliteGetStats(known, db, indexRes)]
    /\ UNCHANGED <<queryVars, svc, bridge, editor, app, storage>>

(***************************************************************************)
(* SchemaSpec: the schema producers, one call at a time.                   *)
(***************************************************************************)
\* the caller's await takes the schema or the rejection
Schema_Return ==
    /\ sch.phase \in {"done", "rejected"}
    /\ sch' = SchIdle
    /\ call' = CallIdle
    /\ UNCHANGED <<queryVars, svc, bridge, editor, app, storage>>

SchemaNext ==
    \/ GetRemoteDatabaseSchema_Start
    \/ GetRemoteDatabaseSchema_Tables
    \/ GetRemoteDatabaseSchema_Columns
    \/ GetRemoteDatabaseSchema_ForeignKeys
    \/ SqliteEngine_GetSchema
    \/ MockEngine_GetSchema
    \/ MongoEngine_GetSchema
    \/ SqliteEngine_GetStats
    \/ Schema_Return

SchemaSpec == Init /\ [][SchemaNext]_vars

(***************************************************************************)
(* Properties of the schema producers, checked under SchemaSpec.           *)
(***************************************************************************)
RemoteSchema == sch.producer = "remote"

\* the history of the tables whose definition was built: both queries settled
Settled(h) == h.cols = "ok" /\ h.fks \in {"ok", "error"}

\* the history entry of the k-th pushed table
PushedHistory(k) == SelectSeq(sch.hist, Settled)[k]

\* the names of the tables whose columns query succeeded, in discovery order
ColumnsSucceeded(h) == h.cols = "ok"

NamesOf(seq) == [i \in 1..Len(seq) |-> seq[i].name]

\* C7: getRemoteDatabaseSchema never rejects; the schema it resolves to holds
\* exactly the tables whose columns query succeeded, in discovery order; a
\* table whose foreign-key query failed has isForeignKey false and no
\* reference on every column; a failed list-tables query gives no tables.
C7_AbsorbsPerTableFailures ==
    RemoteSchema =>
        /\ sch.phase # "rejected"
        /\ sch.phase = "done" =>
             /\ NamesOf(sch.tables)
                  = [i \in 1..Len(SelectSeq(sch.hist, ColumnsSucceeded)) |->
                        SelectSeq(sch.hist, ColumnsSucceeded)[i].table]
             /\ \A k \in 1..Len(sch.tables) :
                  PushedHistory(k).fks = "error" =>
                      \A i \in 1..Len(sch.tables[k].columns) :
                          /\ ~sch.tables[k].columns[i].isForeignKey
                          /\ ~sch.tables[k].columns[i].references.present
             /\ sch.tablesQuery = "error" => sch.tables = <<>>

\* the dbType names a dialect tag of the registry, ignoring case
NamesRegistryTag(dbType) ==
    /\ dbType.t = "string"
    /\ \E tag \in DialectTags : ToLowerCase(dbType.s) = tag

\* C8: the dialect of a credential is mssql for 'sqlserver' in any letter case,
\* postgres for an absent dbType, and postgres for every dbType that names no
\* tag of the registry, in which case discovery sends the postgres list-tables
\* statement instead of returning an empty schema.
C8_DialectResolution ==
    RemoteSchema =>
        /\ (sch.dbType.t = "string" /\ ToLowerCase(sch.dbType.s) = "sqlserver")
               => sch.dialect = "mssql"
        /\ sch.dbType = Undef => sch.dialect = "postgres"
        /\ (~NamesRegistryTag(sch.dbType)
              /\ ~(sch.dbType.t = "string" /\ ToLowerCase(sch.dbType.s) = "sqlserver"))
               => /\ sch.dialect = "postgres"
                  /\ HasSend(externalMessage) =>
                        /\ Len(sch.requests) > 0
                        /\ sch.requests[1] = GetTables("postgres")

\* the column row the k-th pushed table's i-th column was built from
ColumnRowOf(k, i) ==
    ToObject(PushedHistory(k).colsResult.columns, PushedHistory(k).colsResult.rows[i])

\* C9: for every column row, isPrimaryKey is true under sqlite exactly when pk
\* is a number greater than zero, under postgres and mssql exactly when pk is
\* the integer 1 or boolean true, under mysql exactly when key equals 'PRI'
\* ignoring case; a row with pk 0, pk false or neither pk nor key gives false.
C9_PrimaryKeyDetection ==
    RemoteSchema =>
        \A k \in 1..Len(sch.tables) : \A i \in 1..Len(sch.tables[k].columns) :
            LET pk == ReadKey(ColumnRowOf(k, i), "pk")
                key == ReadKey(ColumnRowOf(k, i), "key")
                isPrimaryKey == sch.tables[k].columns[i].isPrimaryKey
            IN  /\ sch.dialect = "sqlite" =>
                     (isPrimaryKey <=> (pk.t = "number" /\ pk.n > 0))
                /\ sch.dialect \in {"postgres", "mssql"} =>
                     (isPrimaryKey <=> (pk = Num(1) \/ pk = Bool(TRUE)))
                /\ sch.dialect = "mysql" =>
                     (isPrimaryKey <=> (key.t = "string" /\ ToUpperCase(key.s) = "PRI"))
                /\ (key = Undef /\ pk \in {Num(0), Bool(FALSE), Undef}) => ~isPrimaryKey

MapHas(map, key) == \E i \in 1..Len(map) : map[i].key = key

MapGet(map, key) == map[CHOOSE i \in 1..Len(map) : map[i].key = key].value

\* a map that keeps only the entry set last
MapSet_DropsOthers(map, key, value) == <<[key |-> key, value |-> value]>>

MapSet(map, key, value) ==
    IF MapHas(map, key)
    THEN [i \in 1..Len(map) |->
             IF map[i].key = key THEN [key |-> key, value |-> value] ELSE map[i]]
    ELSE Append(map, [key |-> key, value |-> value])

\* `user-db-${n}`
UserDbId(n) ==
    CASE n = 1 -> "user-db-1" [] n = 2 -> "user-db-2" [] n = 3 -> "user-db-3"
      [] n = 4 -> "user-db-4" [] n = 5 -> "user-db-5" [] OTHER -> "user-db-6"

\* the counter after virtualIdCounter++
NextCounter_NoIncrement(counter) == counter

NextCounter(counter) == counter + 1

\* a database object as the engine holds it: which upload made it, its
\* catalog, what the index count statement returns, and the rows of its
\* tables
Instance(handle, db, indexRes, data) ==
    [handle |-> handle, db |-> db, indexRes |-> indexRes, data |-> data]

\* getRemoteDatabaseSchema run to its end, the bridge answering each kind of
\* request as the script tells
RECURSIVE RunDiscovery(_, _)
RunDiscovery(s, script) ==
    CASE s.phase = "tables" -> RunDiscovery(AfterTables(s, script.tables), script)
      [] s.phase = "columns" -> RunDiscovery(AfterColumns(s, script.columns), script)
      [] s.phase = "fks" -> RunDiscovery(AfterForeignKeys(s, script.fks), script)
      [] OTHER -> s

GetRemoteDatabaseSchema(em, dbType, script) ==
    RunDiscovery(SchemaStarted(em, dbType), script)

\* what a router call settles to
CallResult(status, backend, tables, stats, text) ==
    [status |-> status, backend |-> backend, tables |-> tables, stats |-> stats,
     text |-> text]

Credential(id, dbType) == [present |-> TRUE, id |-> id, dbType |-> dbType]

\* the four built-in connections
SystemDbs ==
    <<[id |-> "db-1", name |-> "Production DB (Mock SQL)", type |-> "postgres"],
      [id |-> "db-mssql", name |-> "Enterprise SQL Server (Mock)", type |-> "mssql"],
      [id |-> "db-2", name |-> "Analytics Parquet (Mock)", type |-> "parquet"],
      [id |-> "db-mongo", name |-> "User Store (Mock MongoDB)", type |-> "mongodb"]>>

\* getDatabases: the uploaded databases in insertion order, then the built-in
GetDatabases(s) ==
    [i \in 1..Len(s.realDatabases) |->
        [id |-> s.realDatabases[i].key, name |-> s.realDatabases[i].value.name,
         type |-> s.realDatabases[i].value.type]]
       \o SystemDbs

\* getDatabaseSchema
GetDatabaseSchema(s, dbId) ==
    IF dbId = "db-mongo"
    THEN CallResult("resolved", "mongo", MongoGetSchema(dbId), ZeroStats, <<>>)
    ELSE IF MapHas(s.realDatabases, dbId)
         THEN CallResult("resolved", "sqlite",
                         SqliteGetSchema(MapHas(s.instances, dbId),
                                         MapGet(s.instances, dbId).db),
                         ZeroStats, <<>>)
         ELSE CallResult("resolved", "mock", MockGetSchema(dbId), ZeroStats, <<>>)

\* the schema effect of App: cred ? getRemoteDatabaseSchema(cred) : getDatabaseSchema(id)
SchemaEffect(s, em, dbId, cred, script) ==
    IF cred.present
    THEN LET r == GetRemoteDatabaseSchema(em, cred.dbType, script)
         IN  CallResult(IF r.phase = "rejected" THEN "rejected" ELSE "resolved",
                        "remote", r.tables, ZeroStats, <<>>)
    ELSE GetDatabaseSchema(s, dbId)

ExecuteQuery_SkipsRegistry(s, dbId, sql) ==
    IF dbId = "db-mongo"
    THEN CallResult("resolved", "mongo", <<>>, ZeroStats, sql)
    ELSE CallResult("resolved", "mock", <<>>, ZeroStats, sql)

\* executeQuery: the engine the statement is handed to
ExecuteQuery(s, dbId, sql) ==
    IF dbId = "db-mongo"
    THEN CallResult("resolved", "mongo", <<>>, ZeroStats, sql)
    ELSE IF MapHas(s.realDatabases, dbId)
         THEN CallResult(IF MapHas(s.instances, dbId) THEN "resolved" ELSE "rejected",
                         "sqlite", <<>>, ZeroStats, sql)
         ELSE CallResult("resolved", "mock", <<>>, ZeroStats, sql)

\* handleRunQuery of App: cred ? executeRemoteQuery(cred, content) : executeQuery(id, content, ...)
HandleRunQuery(s, dbId, cred, sql) ==
    IF cred.present
    THEN CallResult("resolved", "remote", <<>>, ZeroStats, sql)
    ELSE ExecuteQuery(s, dbId, sql)

\* getDatabaseStats
GetDatabaseStats(s, em, dbId, cred, script) ==
    IF cred.present
    THEN LET r == GetRemoteDatabaseSchema(em, cred.dbType, script)
         IN  IF r.phase = "rejected"
             THEN CallResult("rejected", "remote", <<>>, ZeroStats, <<>>)
             ELSE CallResult("resolved", "remote", r.tables,
                             CalculateStatsFromSchema(r.tables), <<>>)
    ELSE IF MapHas(s.realDatabases, dbId)
         THEN CallResult("resolved", "sqlite",
                         SqliteGetSchema(MapHas(s.instances, dbId),
                                         MapGet(s.instances, dbId).db),
                         SqliteGetStats(MapHas(s.instances, dbId),
                                        MapGet(s.instances, dbId).db,
                                        MapGet(s.instances, dbId).indexRes),
                         <<>>)
         ELSE CallResult("resolved", "mock", MockGetSchema(dbId),
                         CalculateStatsFromSchema(MockGetSchema(dbId)), <<>>)

\* getDialectForDb
GetDialectForDb(s, dbId, cred) ==
    IF cred.present
    THEN DbTypeStr(cred.dbType)
    ELSE IF dbId = "db-mssql"
         THEN "mssql"
         ELSE IF dbId = "db-mongo"
              THEN "mongodb"
              ELSE IF MapHas(s.realDatabases, dbId)
                   THEN MapGet(s.realDatabases, dbId).type
                   ELSE "postgres"

\* sql.includes('.explain'), a statement being the sequence of its pieces
IncludesExplain(sql) ==
    \E i \in 1..Len(sql) :
       sql[i] \in {".explain(\"executionStats\")", ".explain()", ".explained"}

ExplainSql_AlwaysAppends(type, sql) ==
    CASE type = "postgres" -> <<"EXPLAIN (FORMAT JSON, ANALYZE) ">> \o sql
      [] type = "sqlite" -> <<"EXPLAIN QUERY PLAN ">> \o sql
      [] type = "mssql" ->
           <<"SET SHOWPLAN_XML ON;\nGO\n">> \o sql \o <<"\nGO\nSET SHOWPLAN_XML OFF;">>
      [] type = "mysql" -> <<"EXPLAIN FORMAT=JSON ">> \o sql
      [] type = "mongodb" -> sql \o <<".explain(\"executionStats\")">>
      [] OTHER -> <<"EXPLAIN ">> \o sql

\* the statement explainQuery hands on, by dialect
ExplainSql(type, sql) ==
    CASE type = "postgres" -> <<"EXPLAIN (FORMAT JSON, ANALYZE) ">> \o sql
      [] type = "sqlite" -> <<"EXPLAIN QUERY PLAN ">> \o sql
      [] type = "mssql" ->
           <<"SET SHOWPLAN_XML ON;\nGO\n">> \o sql \o <<"\nGO\nSET SHOWPLAN_XML OFF;">>
      [] type = "mysql" -> <<"EXPLAIN FORMAT=JSON ">> \o sql
      [] type = "mongodb" ->
           IF IncludesExplain(sql) THEN sql ELSE sql \o <<".explain(\"executionStats\")">>
      [] OTHER -> <<"EXPLAIN ">> \o sql

\* explainQuery: mongodb goes to executeQuery, a credential to the remote
\* path, anything else to executeQuery
ExplainQuery(s, dbId, sql, cred) ==
    LET type == GetDialectForDb(s, dbId, cred)
    IN  IF type = "mongodb"
        THEN ExecuteQuery(s, dbId, ExplainSql(type, sql))
        ELSE IF cred.present
             THEN CallResult("resolved", "remote", <<>>, ZeroStats, ExplainSql(type, sql))
             ELSE ExecuteQuery(s, dbId, ExplainSql(type, sql))

(***************************************************************************)
(* Files and SqliteEngine.createDatabaseFromFile.  A file name is the      *)
(* sequence of its pieces: each run of letters and digits is one piece,    *)
(* every other character a piece of its own.  A file has its name, whether *)
(* its content can be read, and its content: the database a .sqlite or .db *)
(* file holds, or the header and the lines of a delimited text.  sql.js    *)
(* has loaded.                                                             *)
(***************************************************************************)
\* name.endsWith('.' + ext)
EndsWithExtension(name, ext) ==
    Len(name) >= 2 /\ name[Len(name) - 1] = "." /\ name[Len(name)] = ext

\* the pieces that are not letters or digits
NotAlphanumeric == {".", "-", " ", "_"}

\* filename.replace(/[^a-zA-Z0-9]/g, '_').replace(/_(csv|json|parquet)$/i, ''),
\* as pieces
SanitizedPieces(name) ==
    LET replaced == [i \in 1..Len(name) |->
                        IF name[i] \in NotAlphanumeric THEN "_" ELSE name[i]]
        n == Len(replaced)
    IN  IF n >= 2 /\ replaced[n - 1] = "_"
             /\ ToLowerCase(replaced[n]) \in {"csv", "json", "parquet"}
        THEN SubSeq(replaced, 1, n - 2)
        ELSE replaced

\* the string of a sequence of pieces
Joined(pieces) ==
    CASE pieces = <<"people">> -> "people"
      [] pieces = <<"my", "_", "data">> -> "my_data"
      [] pieces = <<"a", "_", "json">> -> "a_json"
      [] OTHER -> "_"

SanitizeTableName(name) == Joined(SanitizedPieces(name))

\* Papa's dynamicTyping of one field: booleans, numbers, null for the empty
\* field, the string otherwise
DynamicTyping(field) ==
    CASE field = "true" -> Bool(TRUE)
      [] field = "false" -> Bool(FALSE)
      [] field = "1" -> Num(1)
      [] field = "2" -> Num(2)
      [] field = "007" -> Num(7)
      [] field = "1.50" -> Dec("1.5")
      [] field = "" -> Null
      [] OTHER -> Str(field)

\* skipEmptyLines: the lines that are not empty
NotEmptyLine(line) == line # <<"">>

\* Papa.parse(text, {header: true, dynamicTyping: true, skipEmptyLines: true}):
\* meta.fields and the row objects
PapaParse(text) ==
    LET lines == SelectSeq(text.lines, NotEmptyLine)
    IN  [fields |-> text.header,
         data |-> [i \in 1..Len(lines) |->
                      ObjRow([j \in 1..Len(lines[i]) |->
                                 Field(text.header[j], DynamicTyping(lines[i][j]))])]]

\* the decimal digits of a number bound as an integer
NumberText(n) ==
    CASE n = 0 -> "0" [] n = 1 -> "1" [] n = 2 -> "2" [] n = 7 -> "7" [] OTHER -> "9"

\* what a TEXT column holds of a bound value: numbers and booleans (bound as
\* numbers) become their decimal text, null stays NULL
StoredAsText(v) ==
    CASE v.t = "number" -> IF v.s # "" THEN Str(v.s) ELSE Str(NumberText(v.n))
      [] v.t = "boolean" -> Str(NumberText(v.n))
      [] v.t = "string" -> v
      [] OTHER -> Null

\* row[f] ?? null
OrNull(v) == IF v.t = "undefined" THEN Null ELSE v

\* a new SQL.Database(): no table, no index
EmptyDatabase ==
    [ok |-> TRUE,
     db |-> SqliteDatabase(ExecReturned(<<>>), <<>>, <<>>),
     indexRes |-> ExecReturned(<<ResultSet(<<"count(*)">>, <<ArrRow(<<Num(0)>>)>>)>>),
     data |-> <<>>]

\* the file could not be read
NoDatabase == [EmptyDatabase EXCEPT !.ok = FALSE]

\* importDataToTable: one table, every column TEXT, a row per parsed row
ImportDataToTable(tableName, fields, data) ==
    [ok |-> TRUE,
     db |-> SqliteDatabase(
              ExecReturned(<<ResultSet(<<"name">>, <<ArrRow(<<Str(tableName)>>)>>)>>),
              [n \in {Str(tableName)} |->
                 ExecReturned(<<ResultSet(
                    <<"cid", "name", "type", "notnull", "dflt_value", "pk">>,
                    [j \in 1..Len(fields) |->
                       ArrRow(<<Num(j - 1), Str(fields[j]), Str("TEXT"), Num(0), Null,
                                Num(0)>>)])>>)],
              [n \in {Str(tableName)} |-> ExecReturned(<<>>)]),
     indexRes |-> EmptyDatabase.indexRes,
     data |-> [n \in {tableName} |->
                 ResultSet(fields,
                    [i \in 1..Len(data) |->
                       ArrRow([j \in 1..Len(fields) |->
                                  StoredAsText(OrNull(ReadKey(data[i], fields[j])))])])]]

\* a createDatabaseFromFile that rejects the names it does not recognize
CreateDatabaseFromFile_RejectsUnknown(file) ==
    IF EndsWithExtension(file.name, "sqlite") \/ EndsWithExtension(file.name, "db")
    THEN IF file.loads
         THEN [ok |-> TRUE, db |-> file.database.db, indexRes |-> file.database.indexRes,
               data |-> file.database.data]
         ELSE NoDatabase
    ELSE IF EndsWithExtension(file.name, "csv")
         THEN IF file.loads
              THEN LET parseResult == PapaParse(file.text)
                   IN  IF Len(parseResult.data) > 0
                       THEN ImportDataToTable(SanitizeTableName(file.name),
                                              parseResult.fields, parseResult.data)
                       ELSE EmptyDatabase
              ELSE NoDatabase
         ELSE NoDatabase

\* createDatabaseFromFile: ok FALSE when it rejects
CreateDatabaseFromFile(file) ==
    IF EndsWithExtension(file.name, "sqlite") \/ EndsWithExtension(file.name, "db")
    THEN IF file.loads
         THEN [ok |-> TRUE, db |-> file.database.db, indexRes |-> file.database.indexRes,
               data |-> file.database.data]
         ELSE NoDatabase
    ELSE IF EndsWithExtension(file.name, "csv")
         THEN IF file.loads
              THEN LET parseResult == PapaParse(file.text)
                   IN  IF Len(parseResult.data) > 0
                       THEN ImportDataToTable(SanitizeTableName(file.name),
                                              parseResult.fields, parseResult.data)
                       ELSE EmptyDatabase
              ELSE NoDatabase
         ELSE EmptyDatabase

\* db.exec of a SELECT * on one table: it throws for an unknown table and
\* returns no result set when the table has no row
ExecSelectAll(instance, tableName) ==
    IF tableName \notin DOMAIN instance.data
    THEN ExecThrew(Str("no such table"))
    ELSE IF Len(instance.data[tableName].values) = 0
         THEN ExecReturned(<<>>)
         ELSE ExecReturned(<<instance.data[tableName]>>)

\* a file: its name, whether it can be read, and what it holds
File(name, loads, database, text) ==
    [name |-> name, loads |-> loads, database |-> database, text |-> text]

NoText == [header |-> <<>>, lines |-> <<>>]

\* uploadDatabase from the end of its await on: the id is taken, the
\* database registered with the engine and entered in realDatabases; or
\* the await has rejected and nothing is registered
UploadDatabase(s, u) ==
    LET created == CreateDatabaseFromFile(u.file)
        dbId == UserDbId(s.virtualIdCounter)
    IN  IF created.ok
        THEN [s EXCEPT
                !.virtualIdCounter = NextCounter(s.virtualIdCounter),
                !.instances = MapSet(s.instances, dbId,
                                     Instance(u.handle, created.db, created.indexRes,
                                              created.data)),
                !.realDatabases = MapSet(s.realDatabases, dbId,
                                         [id |-> dbId, name |-> u.file.name,
                                          type |-> "sqlite"]),
                !.issued = Append(s.issued, [id |-> dbId, handle |-> u.handle,
                                             file |-> u.file])]
        ELSE s

(***************************************************************************)
(* RouterSpec: MuulService with its registry of uploaded databases, and    *)
(* the calls App makes on it, one call at a time.  Uploads overlap: each   *)
(* is suspended at the await of createDatabaseFromFile.  The record call   *)
(* keeps the arguments and the result of a call until its caller takes     *)
(* them; the registry is left alone meanwhile, so that the result can be   *)
(* compared with the registry it was computed from.                        *)
(***************************************************************************)
MaxUploads == 2

\* the files offered to uploadDatabase: a database of two tables, a CSV
\* without data rows, and a database file that cannot be read
UploadFiles ==
    LET names == {Str(TableNamePool[i]) : i \in 1..Len(TableNamePool)}
        info == CHOOSE r \in TableInfoResults : r.kind = "results" /\ Len(r.sets) > 0
        fkl == CHOOSE r \in ForeignKeyListResults : r.kind = "results" /\ Len(r.sets) > 0
        count == CHOOSE r \in IndexResults : r.kind = "results" /\ Len(r.sets) > 0
                                                 /\ Len(r.sets[1].values) > 0
        shop == [EmptyDatabase EXCEPT
                    !.db = SqliteDatabase(ExecReturned(<<ResultSet(<<"name">>, NameRows(2))>>),
                                          [n \in names |-> info], [n \in names |-> fkl]),
                    !.indexRes = count]
    IN  {File(<<"shop", ".", "sqlite">>, TRUE, shop, NoText),
         File(<<"empty", ".", "csv">>, TRUE, EmptyDatabase,
              [header |-> <<"id", "name">>, lines |-> <<>>]),
         File(<<"notes", ".", "db">>, FALSE, EmptyDatabase, NoText)}

\* uploadDatabase up to its await: the file is being read
UploadDatabase_Start ==
    /\ call.status = "idle"
    /\ svc.started < MaxUploads
    /\ \E file \in UploadFiles :
         svc' = [svc EXCEPT !.started = svc.started + 1,
                            !.uploads = Append(svc.uploads,
                                               [handle |-> svc.started + 1, file |-> file])]
    /\ UNCHANGED <<queryVars, sch, call, bridge, editor, app, storage>>

\* an uploadDatabase that enters the id in realDatabases whether or not the
\* file gave a database
UploadDatabase_Settle_EntersFirst ==
    /\ call.status = "idle"
    /\ \E i \in 1..Len(svc.uploads) :
         LET u == svc.uploads[i]
             rest == SubSeq(svc.uploads, 1, i - 1) \o SubSeq(svc.uploads, i + 1, Len(svc.uploads))
             dbId == UserDbId(svc.virtualIdCounter)
             created == CreateDatabaseFromFile(u.file)
             entered == [svc EXCEPT
                     !.uploads = rest,
                     !.virtualIdCounter = NextCounter(svc.virtualIdCounter),
                     !.realDatabases = MapSet(svc.realDatabases, dbId,
                                              [id |-> dbId, name |-> u.file.name,
                                               type |-> "sqlite"]),
                     !.issued = Append(svc.issued, [id |-> dbId, handle |-> u.handle,
                                                    file |-> u.file])]
         IN  IF created.ok
             THEN svc' = [entered EXCEPT
                            !.instances = MapSet(svc.instances, dbId,
                                                 Instance(u.handle, created.db,
                                                          created.indexRes, created.data))]
             ELSE svc' = entered
    /\ UNCHANGED <<queryVars, sch, call, bridge, editor, app, storage>>

\* the rest of an uploadDatabase whose await has ended, in one turn
UploadDatabase_Settle ==
    /\ call.status = "idle"
    /\ \E i \in 1..Len(svc.uploads) :
         LET u == svc.uploads[i]
             rest == SubSeq(svc.uploads, 1, i - 1) \o SubSeq(svc.uploads, i + 1, Len(svc.uploads))
         IN  svc' = [UploadDatabase(svc, u) EXCEPT !.uploads = rest]
    /\ UNCHANGED <<queryVars, sch, call, bridge, editor, app, storage>>

\* the connections of the sidebar: built-in, uploaded, saved
ConnectionIds == {"db-1", "db-mssql", "db-mongo", "user-db-1", "user-db-2", "cred-1"}

\* savedCredentials.find(c => c.id === selectedDbId): none, or a saved
\* credential of that id
CredentialsFor(dbId) ==
    {NoCredential}
    \cup (IF dbId \in {"cred-1", "user-db-1"}
          THEN {Credential(dbId, t) :
                  t \in {Undef, Str("postgres"), Str("SQLServer"), Str("mysql"),
                         Str("sqlite"), Str("mongodb"), Str("oracle")}}
          ELSE {})

\* what the bridge answers to the requests of one discovery
Scripts ==
    LET tables == CHOOSE o \in TablesOutcomes :
                     o = Replied(TupleReply(<<"name">>, NameRows(MaxTables)))
        columns == Replied(TupleReply(<<"name", "type", "pk">>,
                     <<ArrRow(<<Str("id"), Str("int"), Num(1)>>),
                       ArrRow(<<Str("a"), Str("int"), Num(0)>>),
                       ArrRow(<<Str("c"), Str("text"), Num(0)>>)>>))
        fks == Replied(TupleReply(<<"from", "table", "to">>,
                     <<ArrRow(<<Str("a"), Str("users"), Str("id")>>)>>))
        failed == CHOOSE o \in FailedOutcomes : o.kind = "reply"
        rejected == CHOOSE o \in FailedOutcomes : o.kind # "reply"
    IN  {[tables |-> tables, columns |-> columns, fks |-> fks],
         [tables |-> tables, columns |-> columns, fks |-> failed],
         [tables |-> tables, columns |-> failed, fks |-> fks],
         [tables |-> rejected, columns |-> columns, fks |-> fks]}

\* the editor texts run and explained
SqlTexts ==
    {<<"SELECT * FROM users">>,
     <<"db.users.find({})">>,
     <<"db.users.find({})", ".explain(\"executionStats\")">>,
     <<"db.users.find({})", ".explain()">>,
     <<"db.notes.find({t: \"un", ".explained", "\"})">>}

CallOf(opName, dbId, cred, script, sql, r) ==
    [CallIdle EXCEPT !.op = opName, !.dbId = dbId, !.cred = cred, !.script = script,
                     !.sql = sql, !.status = r.status, !.backend = r.backend,
                     !.tables = r.tables, !.stats = r.stats, !.text = r.text]

App_SchemaEffect ==
    /\ call.status = "idle"
    /\ \E dbId \in ConnectionIds :
         \E cred \in CredentialsFor(dbId), script \in Scripts :
            call' = CallOf("schema", dbId, cred, IF cred.present THEN script ELSE NoScript,
                           <<>>, SchemaEffect(svc, externalMessage, dbId, cred, script))
    /\ UNCHANGED <<queryVars, sch, svc, bridge, editor, app, storage>>

App_HandleRunQuery ==
    /\ call.status = "idle"
    /\ \E dbId \in ConnectionIds :
         \E cred \in CredentialsFor(dbId), sql \in SqlTexts :
            call' = CallOf("executeQuery", dbId, cred, NoScript, sql,
                           HandleRunQuery(svc, dbId, cred, sql))
    /\ UNCHANGED <<queryVars, sch, svc, bridge, editor, app, storage>>

MuulService_GetDatabaseStats ==
    /\ call.status = "idle"
    /\ \E dbId \in ConnectionIds :
         \E cred \in CredentialsFor(dbId), script \in Scripts :
            call' = CallOf("getDatabaseStats", dbId, cred,
                           IF cred.present THEN script ELSE NoScript, <<>>,
                           GetDatabaseStats(svc, externalMessage, dbId, cred, script))
    /\ UNCHANGED <<queryVars, sch, svc, bridge, editor, app, storage>>

MuulService_ExplainQuery ==
    /\ call.status = "idle"
    /\ \E dbId \in ConnectionIds :
         \E cred \in CredentialsFor(dbId), sql \in SqlTexts :
            call' = CallOf("explainQuery", dbId, cred, NoScript, sql,
                           ExplainQuery(svc, dbId, sql, cred))
    /\ UNCHANGED <<queryVars, sch, svc, bridge, editor, app, storage>>

MuulService_GetDatabases ==
    /\ call.status = "idle"
    /\ call' = [CallIdle EXCEPT !.op = "getDatabases", !.status = "resolved",
                                !.databases = GetDatabases(svc)]
    /\ UNCHANGED <<queryVars, sch, svc, bridge, editor, app, storage>>

\* the caller's await takes the result or the rejection
Router_Return ==
    /\ call.status # "idle"
    /\ call' = CallIdle
    /\ UNCHANGED <<queryVars, sch, svc, bridge, editor, app, storage>>

RouterNext ==
    \/ UploadDatabase_Start
    \/ UploadDatabase_Settle
    \/ App_SchemaEffect
    \/ App_HandleRunQuery
    \/ MuulService_GetDatabaseStats
    \/ MuulService_ExplainQuery
    \/ MuulService_GetDatabases
    \/ Router_Return

RouterSpec == Init /\ [][RouterNext]_vars

(***************************************************************************)
(* Properties of the router, checked under RouterSpec.                     *)
(***************************************************************************)
\* the columns of a schema that satisfy P, counted one by one
CountColumns(tables, P(_)) ==
    Cardinality({ij \in UNION {{<<i, j>> : j \in 1..Len(tables[i].columns)} :
                                  i \in 1..Len(tables)} :
                    P(tables[ij[1]].columns[ij[2]])})

\* the index statement of an uploaded database answered with a count row
IndexAnswered(dbId) ==
    /\ MapHas(svc.instances, dbId)
    /\ MapGet(svc.instances, dbId).indexRes.kind = "results"
    /\ \A k \in 1..Len(MapGet(svc.instances, dbId).indexRes.sets) :
          k = 1 => Len(MapGet(svc.instances, dbId).indexRes.sets[k].values) > 0

\* C11: the stats of a schema are its number of tables, its total number of
\* columns, the number of columns flagged primary key and the number flagged
\* foreign key; for remote and simulated sources indexCount equals pkCount.
\* The embedded engine folds the same way whenever its index statement
\* answers.
C11_StatsFolding ==
    LET any(c) == TRUE
        pk(c) == c.isPrimaryKey
        fk(c) == c.isForeignKey
    IN  (/\ call.op = "getDatabaseStats"
         /\ call.status = "resolved"
         /\ call.backend = "sqlite" => IndexAnswered(call.dbId))
        => /\ call.stats.tableCount = Len(call.tables)
           /\ call.stats.columnCount = CountColumns(call.tables, any)
           /\ call.stats.pkCount = CountColumns(call.tables, pk)
           /\ call.stats.fkCount = CountColumns(call.tables, fk)
           /\ call.backend \in {"remote", "mock"}
                 => call.stats.indexCount = call.stats.pkCount

C11_Witness ==
    /\ call.op = "getDatabaseStats"
    /\ call.status = "resolved"
    /\ call.backend = "remote"
    /\ call.stats.tableCount = 2
    /\ call.stats.pkCount > 0
    /\ call.stats.fkCount > 0
    /\ call.stats.columnCount > call.stats.pkCount + call.stats.fkCount
\* C12: the schema lookup and the running of a query each go to one backend:
\* the remote one when a credential is supplied, otherwise the embedded engine
\* when the id is a registered local instance, otherwise a simulation engine
\* (the document-store one for 'db-mongo'); both go to the same backend for
\* the same connection.
C12_RouterDispatch ==
    call.op \in {"schema", "executeQuery"}
    => call.backend = IF call.cred.present
                      THEN "remote"
                      ELSE IF \E i \in 1..Len(svc.issued) : svc.issued[i].id = call.dbId
                           THEN "sqlite"
                           ELSE IF call.dbId = "db-mongo" THEN "mongo" ELSE "mock"

C12_Witness ==
    /\ call.op = "executeQuery"
    /\ ~call.cred.present
    /\ call.dbId = "user-db-2"
    /\ call.backend = "sqlite"
    /\ call.status = "resolved"
\* C13: the four counts getDatabaseStats returns for a connection are the
\* fold of the schema the schema lookup returns for the same connection.
C13_StatsMirrorSchema ==
    LET schema == SchemaEffect(svc, externalMessage, call.dbId, call.cred, call.script).tables
        any(c) == TRUE
        pk(c) == c.isPrimaryKey
        fk(c) == c.isForeignKey
    IN  (call.op = "getDatabaseStats" /\ call.status = "resolved")
        => /\ call.stats.tableCount = Len(schema)
           /\ call.stats.columnCount = CountColumns(schema, any)
           /\ call.stats.pkCount = CountColumns(schema, pk)
           /\ call.stats.fkCount = CountColumns(schema, fk)
C18_IdsNeverReused ==
    /\ \A i, j \in 1..Len(svc.issued) : i # j => svc.issued[i].id # svc.issued[j].id
    /\ svc.virtualIdCounter = 1 + Len(svc.issued)
    /\ \A i \in 1..Len(svc.issued) :
          /\ MapHas(svc.instances, svc.issued[i].id)
          /\ MapGet(svc.instances, svc.issued[i].id).handle = svc.issued[i].handle
          /\ MapHas(svc.realDatabases, svc.issued[i].id)
    /\ Len(svc.instances) = Len(svc.issued)

\* two uploads overlapped and the one started second was registered first
C18_Witness ==
    /\ Len(svc.issued) = 2
    /\ svc.issued[1].handle = 2
    /\ svc.issued[2].handle = 1
    /\ svc.issued[1].id = "user-db-1"
    /\ svc.issued[2].id = "user-db-2"
(***************************************************************************)
(* Properties of SqliteEngine.getStats, checked under SchemaSpec.          *)
(***************************************************************************)
\* a catalog query of getSchema failed: the instance is unknown, the table
\* list throws, or for a listed table a pragma throws or table_info gives
\* no result set
SchemaQueryFailed(a) ==
    \/ ~a.known
    \/ a.db.tablesRes.kind = "throw"
    \/ /\ Len(a.db.tablesRes.sets) > 0
       /\ \E i \in 1..Len(a.db.tablesRes.sets[1].values) :
             LET n == a.db.tablesRes.sets[1].values[i].items[1]
             IN  \/ a.db.tableInfo[n].kind = "throw"
                 \/ a.db.foreignKeyList[n].kind = "throw"
                 \/ Len(a.db.tableInfo[n].sets) = 0

\* C20: getSchema and getStats of the embedded engine always resolve; when
\* the instance is unknown or a catalog query fails, getSchema resolves to
\* the empty schema and getStats to stats whose five counts are all zero.
C20_DegradesToEmpty ==
    call.op = "getStats"
    => /\ call.status = "resolved"
       /\ sch.phase = "done"
       /\ SchemaQueryFailed(call.arg) => sch.tables = <<>>
       /\ (SchemaQueryFailed(call.arg) \/ call.arg.indexRes.kind = "throw")
             => call.stats = ZeroStats
(***************************************************************************)
(* BridgeSpec: the requests in flight on the bridge.  Callers do not wait  *)
(* for one another: the schema effect, the properties panel and a run of   *)
(* the editor each await their own send.  Date.now() reads a millisecond   *)
(* clock that advances between some sends and not between others, and the  *)
(* bridge answers the requests in any order.                               *)
(***************************************************************************)
MaxClock == 2
MaxOutstanding == 2

\* `query-${Date.now()}`, `list-${Date.now()}`
RequestId(prefix, now) == [prefix |-> prefix, ms |-> now]

Clock_Tick ==
    /\ bridge.now < MaxClock
    /\ bridge' = [bridge EXCEPT !.now = bridge.now + 1]
    /\ UNCHANGED <<queryVars, sch, svc, call, editor, app, storage>>

\* executeRemoteQuery up to its await: the payload is sent
Bridge_ExecuteRemoteQuery ==
    /\ HasSend(externalMessage)
    /\ Len(bridge.outstanding) < MaxOutstanding
    /\ \E credentialId \in {"cred-1", "cred-2"}, sql \in {"SELECT 1", "SELECT 2"} :
         bridge' = [bridge EXCEPT !.outstanding =
                       Append(bridge.outstanding,
                              QueryPayload(credentialId, sql)
                                 @@ [requestId |-> RequestId("query", bridge.now)])]
    /\ UNCHANGED <<queryVars, sch, svc, call, editor, app, storage>>

\* fetchSavedCredentials up to its await
Bridge_FetchSavedCredentials ==
    /\ HasSend(externalMessage)
    /\ Len(bridge.outstanding) < MaxOutstanding
    /\ bridge' = [bridge EXCEPT !.outstanding =
                     Append(bridge.outstanding,
                            CredentialsPayload
                               @@ [requestId |-> RequestId("list", bridge.now)])]
    /\ UNCHANGED <<queryVars, sch, svc, call, editor, app, storage>>

\* the bridge settles one of the requests in flight, whichever
Bridge_Reply ==
    /\ \E i \in 1..Len(bridge.outstanding) :
         bridge' = [bridge EXCEPT !.outstanding =
                       SubSeq(bridge.outstanding, 1, i - 1)
                          \o SubSeq(bridge.outstanding, i + 1, Len(bridge.outstanding))]
    /\ UNCHANGED <<queryVars, sch, svc, call, editor, app, storage>>

BridgeNext ==
    \/ Clock_Tick
    \/ Bridge_ExecuteRemoteQuery
    \/ Bridge_FetchSavedCredentials
    \/ Bridge_Reply

BridgeSpec == Init /\ [][BridgeNext]_vars

\* C19: any two requests in flight on the bridge at the same time carry
\* different request identifiers, so that a reply can be matched to its
\* request when replies arrive out of order.
C19_DistinctRequestIds ==
    \A i, j \in 1..Len(bridge.outstanding) :
       i # j => bridge.outstanding[i].requestId # bridge.outstanding[j].requestId
(***************************************************************************)
(* The editor of App: dropping tables on the query text and confirming the *)
(* joins proposed.  A text is the sequence of its pieces: each maximal run *)
(* of word characters ([\w$]+) is one piece, and so is each stretch of     *)
(* white space and each punctuation mark between them.                     *)
(***************************************************************************)
MaxBatch == 2

Whitespace == {" ", "\n", "\n\n", "\n  "}

\* a piece the pattern /"?([\w$]+)"?/g captures
IsWord(piece) == piece \notin Whitespace \cup {"*", ";", "\"", ".", ",", "="}

\* String.prototype.trim
RECURSIVE Trim(_)
Trim(text) ==
    IF text = <<>>
    THEN <<>>
    ELSE IF Head(text) \in Whitespace
         THEN Trim(Tail(text))
         ELSE IF text[Len(text)] \in Whitespace
              THEN Trim(SubSeq(text, 1, Len(text) - 1))
              ELSE text

\* `SELECT * FROM "${t}" LIMIT 100;`
SelectAll(t) ==
    <<"SELECT", " ", "*", " ", "FROM", " ", "\"", t, "\"", " ", "LIMIT", " ", "100", ";">>

\* tableNames.map(t => `SELECT * FROM "${t}" LIMIT 100;`).join('\n\n')
RECURSIVE SelectAllOf(_)
SelectAllOf(tableNames) ==
    IF tableNames = <<>>
    THEN <<>>
    ELSE IF Len(tableNames) = 1
         THEN SelectAll(tableNames[1])
         ELSE SelectAll(tableNames[1]) \o <<"\n\n">> \o SelectAllOf(Tail(tableNames))

\* Array.from(new Set([...newSql.matchAll(/"?([\w$]+)"?/g)].map(m => m[1])))
ExistingTablesInSql(newSql) == Dedupe(SelectSeq(newSql, IsWord))

\* activeSchema.tables.find(t => t.name === name): its index, 0 for undefined
FindTable(schema, name) ==
    IF \E i \in 1..Len(schema) : schema[i].name = Str(name)
    THEN CHOOSE i \in 1..Len(schema) :
            schema[i].name = Str(name) /\ \A j \in 1..(i - 1) : schema[j].name # Str(name)
    ELSE 0

\* columns.find(c => c.isForeignKey && c.references?.table === target): its
\* index, 0 for undefined
FindFk(columns, target) ==
    LET hit(c) == c.isForeignKey /\ c.references.present /\ c.references.table = Str(target)
    IN  IF \E i \in 1..Len(columns) : hit(columns[i])
        THEN CHOOSE i \in 1..Len(columns) :
                hit(columns[i]) /\ \A j \in 1..(i - 1) : ~hit(columns[j])
        ELSE 0

\* c.includes('id') || c.includes('key'), c a lower-cased column name
IncludesIdOrKey(c) == c \in {"id", "user_id", "order_id", "api_key"}

\* the lower-cased names of the new table that the existing one has too
\* and that contain 'id' or 'key'
Intersect(tableDef, existingDef) ==
    LET lower(cols) == [i \in 1..Len(cols) |-> ToLowerCase(cols[i].name.s)]
        shared(c) == /\ \E j \in 1..Len(existingDef.columns) :
                           lower(existingDef.columns)[j] = c
                     /\ IncludesIdOrKey(c)
    IN  SelectSeq(lower(tableDef.columns), shared)

\* `"${lt}"."${lc}" = "${rt}"."${rc}"`
JoinCondition(lt, lc, rt, rc) ==
    <<"\"", lt, "\"", ".", "\"", lc, "\"", " ", "=", " ", "\"", rt, "\"", ".", "\"", rc, "\"">>

PendingJoin(tableDef, existing, joinCondition, isHeuristic) ==
    [newTable |-> tableDef, existingTable |-> existing, joinCondition |-> joinCondition,
     isHeuristic |-> isHeuristic]

\* no bestJoin yet
NoJoin == [bestScore |-> -1, found |-> FALSE,
           bestJoin |-> PendingJoin(Table(Undef, <<>>), "", <<>>, FALSE)]

\* a later table replaces the join found only when its tier is higher
ScanStep_KeepsFirst(schema, tableDef, best, existing) ==
    LET newTable == tableDef.name.s
        e == FindTable(schema, existing)
        fk == FindFk(tableDef.columns, existing)
        revFk == IF e = 0 THEN 0 ELSE FindFk(schema[e].columns, newTable)
        intersect == IF e = 0 THEN <<>> ELSE Intersect(tableDef, schema[e])
    IN  IF fk # 0
        THEN IF best.bestScore < 10
             THEN [bestScore |-> 10, found |-> TRUE,
                   bestJoin |-> PendingJoin(tableDef, existing,
                       JoinCondition(newTable, tableDef.columns[fk].name.s, existing,
                                     tableDef.columns[fk].references.column.s), FALSE)]
             ELSE best
        ELSE IF best.bestScore < 8 /\ revFk # 0
             THEN [bestScore |-> 8, found |-> TRUE,
                   bestJoin |-> PendingJoin(tableDef, existing,
                       JoinCondition(existing, schema[e].columns[revFk].name.s, newTable,
                                     schema[e].columns[revFk].references.column.s), FALSE)]
             ELSE IF best.bestScore < 2 /\ Len(intersect) > 0
                  THEN [bestScore |-> 2, found |-> TRUE,
                        bestJoin |-> PendingJoin(tableDef, existing,
                            JoinCondition(newTable, intersect[1], existing, intersect[1]),
                            TRUE)]
                  ELSE best

\* the name heuristic is tried whatever was found before
ScanStep_HeuristicUnguarded(schema, tableDef, best, existing) ==
    LET newTable == tableDef.name.s
        e == FindTable(schema, existing)
        intersect == IF e = 0 THEN <<>> ELSE Intersect(tableDef, schema[e])
    IN  IF Len(intersect) > 0
        THEN [bestScore |-> 2, found |-> TRUE,
              bestJoin |-> PendingJoin(tableDef, existing,
                  JoinCondition(newTable, intersect[1], existing, intersect[1]), TRUE)]
        ELSE best

\* one turn of the loop over existingTablesInSql
ScanStep(schema, tableDef, best, existing) ==
    LET newTable == tableDef.name.s
        e == FindTable(schema, existing)
        fk == FindFk(tableDef.columns, existing)
        afterFk ==
            IF fk # 0
            THEN [bestScore |-> 10, found |-> TRUE,
                  bestJoin |-> PendingJoin(tableDef, existing,
                      JoinCondition(newTable, tableDef.columns[fk].name.s, existing,
                                    tableDef.columns[fk].references.column.s), FALSE)]
            ELSE best
        revFk == IF e = 0 THEN 0 ELSE FindFk(schema[e].columns, newTable)
        afterRevFk ==
            IF afterFk.bestScore < 10 /\ revFk # 0
            THEN [bestScore |-> 8, found |-> TRUE,
                  bestJoin |-> PendingJoin(tableDef, existing,
                      JoinCondition(existing, schema[e].columns[revFk].name.s, newTable,
                                    schema[e].columns[revFk].references.column.s), FALSE)]
            ELSE afterFk
        intersect == IF e = 0 THEN <<>> ELSE Intersect(tableDef, schema[e])
    IN  IF afterRevFk.bestScore < 8 /\ Len(intersect) > 0
        THEN [bestScore |-> 2, found |-> TRUE,
              bestJoin |-> PendingJoin(tableDef, existing,
                  JoinCondition(newTable, intersect[1], existing, intersect[1]), TRUE)]
        ELSE afterRevFk

\* the loop over existingTablesInSql for one new table
RECURSIVE ScanExisting(_, _, _, _)
ScanExisting(schema, tableDef, best, existingTables) ==
    IF existingTables = <<>>
    THEN best
    ELSE ScanExisting(schema, tableDef, ScanStep(schema, tableDef, best, Head(existingTables)),
                      Tail(existingTables))
\* the forEach over the dropped tables: the joins found, the text with the
\* statements appended, and the bestScore of each join found
RECURSIVE DropTables(_, _, _, _)
DropTables(schema, existingTables, acc, tableNames) ==
    IF tableNames = <<>>
    THEN acc
    ELSE LET newTable == Head(tableNames)
             t == FindTable(schema, newTable)
             best == ScanExisting(schema, schema[t], NoJoin, existingTables)
         IN  DropTables(schema, existingTables,
                IF t = 0
                THEN acc
                ELSE IF best.found
                     THEN [acc EXCEPT !.foundJoins = Append(acc.foundJoins, best.bestJoin),
                                      !.scores = Append(acc.scores, best.bestScore)]
                     ELSE [acc EXCEPT !.newSql = acc.newSql \o <<"\n\n">> \o SelectAll(newTable)],
                Tail(tableNames))

\* handleEditorDrop, for a drop of tables of the selected connection
HandleEditorDrop(ed, tableNames) ==
    LET newSql == Trim(ed.content)
        done == DropTables(ed.schema, ExistingTablesInSql(newSql),
                           [foundJoins |-> <<>>, newSql |-> newSql, scores |-> <<>>],
                           tableNames)
        last == [op |-> "drop", tableNames |-> tableNames, before |-> ed.content,
                 scores |-> IF newSql = <<>> THEN <<>> ELSE done.scores]
    IN  IF newSql = <<>>
        THEN [ed EXCEPT !.content = SelectAllOf(tableNames), !.last = last]
        ELSE IF Len(done.foundJoins) > 0
             THEN [ed EXCEPT !.pendingJoins = done.foundJoins, !.isJoinBuilderOpen = TRUE,
                             !.last = last]
             ELSE [ed EXCEPT !.content = done.newSql, !.last = last]

\* `${tableName}_${col}`, over the tables of the model
Alias(tableName, col) ==
    CASE <<tableName, col>> = <<"users", "id">> -> "users_id"
      [] <<tableName, col>> = <<"users", "name">> -> "users_name"
      [] <<tableName, col>> = <<"orders", "id">> -> "orders_id"
      [] <<tableName, col>> = <<"orders", "user_id">> -> "orders_user_id"
      [] <<tableName, col>> = <<"items", "ID">> -> "items_ID"
      [] <<tableName, col>> = <<"items", "order_id">> -> "items_order_id"
      [] <<tableName, col>> = <<"items", "user_id">> -> "items_user_id"
      [] <<tableName, col>> = <<"logs", "id">> -> "logs_id"
      [] <<tableName, col>> = <<"logs", "note">> -> "logs_note"
      [] OTHER -> "audit_note"

\* sql.match(/SELECT\s+([\s\S]+?)\s+FROM/i): the places of SELECT and FROM,
\* both 0 when there is no match
SelectMatch(sql) ==
    LET from(i, j) == /\ ToLowerCase(sql[j]) = "from"
                      /\ j >= i + 4
                      /\ sql[j - 1] \in Whitespace
        select(i) == /\ ToLowerCase(sql[i]) = "select"
                     /\ i + 1 <= Len(sql)
                     /\ sql[i + 1] \in Whitespace
                     /\ \E j \in 1..Len(sql) : from(i, j)
    IN  IF \E i \in 1..Len(sql) : select(i)
        THEN LET i == CHOOSE k \in 1..Len(sql) : select(k) /\ \A l \in 1..(k - 1) : ~select(l)
                 j == CHOOSE k \in 1..Len(sql) :
                         from(i, k) /\ \A l \in 1..(k - 1) : ~from(i, l)
             IN  [select |-> i, from |-> j]
        ELSE [select |-> 0, from |-> 0]

\* sql.replace(/;?\s*$/, ''): the text without its final white space and
\* the semicolon before it
StripEnd(sql) ==
    LET text == IF sql # <<>> /\ sql[Len(sql)] \in Whitespace
                THEN SubSeq(sql, 1, Len(sql) - 1)
                ELSE sql
    IN  IF text # <<>> /\ text[Len(text)] = ";"
        THEN SubSeq(text, 1, Len(text) - 1)
        ELSE text

\* selectPart.toLowerCase().includes(`"${col}"`) || ...includes(`, ${col}`),
\* col lower-cased; no word of the model begins with another one
IsAmbiguous(selectPart, col) ==
    \E k \in 1..(Len(selectPart) - 2) :
       \/ /\ selectPart[k] = "\""
          /\ ToLowerCase(selectPart[k + 1]) = ToLowerCase(col)
          /\ selectPart[k + 2] = "\""
       \/ /\ selectPart[k] = ","
          /\ selectPart[k + 1] = " "
          /\ ToLowerCase(selectPart[k + 2]) = ToLowerCase(col)

\* item.columns.map(...).join(',\n  ')
RECURSIVE TableColumns(_, _, _)
TableColumns(selectPart, tableName, columns) ==
    IF columns = <<>>
    THEN <<>>
    ELSE LET col == Head(columns)
             one == <<"\"", tableName, "\"", ".", "\"", col, "\"">>
                    \o IF IsAmbiguous(selectPart, col)
                       THEN <<" ", "AS", " ", "\"", Alias(tableName, col), "\"">>
                       ELSE <<>>
         IN  IF Len(columns) = 1
             THEN one
             ELSE one \o <<",", "\n  ">> \o TableColumns(selectPart, tableName, Tail(columns))

\* the forEach over the batch: the text with the joins appended and the
\* select list with the columns added
RECURSIVE JoinBatch(_, _)
JoinBatch(acc, batch) ==
    IF batch = <<>>
    THEN acc
    ELSE LET item == Head(batch)
             tableColumns == TableColumns(acc.selectPart, item.tableName, item.columns)
         IN  JoinBatch(
                [sql |-> StripEnd(acc.sql)
                           \o <<"\n", "INNER", " ", "JOIN", " ", "\"", item.tableName, "\"",
                                " ", "ON", " ">>
                           \o item.joinSql \o <<";">>,
                 selectPart |-> IF acc.selectPart \in {<<"*">>, <<" ", "*">>}
                                THEN <<"*", ",", "\n  ">> \o tableColumns
                                ELSE acc.selectPart \o <<",", "\n  ">> \o tableColumns],
                Tail(batch))

\* sql.replace(selectMatch[1], selectPart): the first occurrence replaced
ReplaceFirst(sql, old, new) ==
    LET at(k) == k + Len(old) - 1 <= Len(sql) /\ SubSeq(sql, k, k + Len(old) - 1) = old
    IN  IF \E k \in 1..Len(sql) : at(k)
        THEN LET k == CHOOSE i \in 1..Len(sql) : at(i) /\ \A l \in 1..(i - 1) : ~at(l)
             IN  SubSeq(sql, 1, k - 1) \o new \o SubSeq(sql, k + Len(old), Len(sql))
        ELSE sql

\* handleFinish of the modal, then handleJoinConfirmed
HandleJoinConfirmed(ed, allColumns) ==
    LET batch == [i \in 1..Len(ed.pendingJoins) |->
                    [tableName |-> ed.pendingJoins[i].newTable.name.s,
                     existingTable |-> ed.pendingJoins[i].existingTable,
                     columns |-> IF allColumns
                                 THEN [k \in 1..Len(ed.pendingJoins[i].newTable.columns) |->
                                          ed.pendingJoins[i].newTable.columns[k].name.s]
                                 ELSE <<>>,
                     joinSql |-> ed.pendingJoins[i].joinCondition]]
        sql == Trim(ed.content)
        selectMatch == SelectMatch(sql)
        matched == selectMatch.select # 0
        old == SubSeq(sql, selectMatch.select + 2, selectMatch.from - 2)
        done == JoinBatch([sql |-> sql, selectPart |-> IF matched THEN old ELSE <<"*">>], batch)
    IN  [ed EXCEPT
           !.content = IF matched
                       THEN ReplaceFirst(done.sql, old, done.selectPart)
                       ELSE IF done.sql # <<>> /\ ToLowerCase(done.sql[1]) = "select"
                            THEN done.sql
                            ELSE <<"SELECT", " ">> \o done.selectPart
                                    \o <<" ", "FROM", " ", "...", "\n">> \o done.sql,
           !.isJoinBuilderOpen = FALSE,
           !.pendingJoins = <<>>,
           !.last = [ed.last EXCEPT !.op = "confirm"]]

(***************************************************************************)
(* EditorSpec: a schema is loaded, a text is typed, tables are dropped on  *)
(* it, the joins proposed are confirmed or the dialog is closed.  Tables   *)
(* are dropped on a text as it was typed; a text a drop or a confirmation  *)
(* has produced is typed over before the next drop.                        *)
(***************************************************************************)
\* the schema the drops are resolved against
EditorSchema ==
    <<Table(Str("users"),
        <<Column(Str("id"), Str("int"), TRUE, FALSE, NoReference),
          Column(Str("name"), Str("text"), FALSE, FALSE, NoReference)>>),
      Table(Str("orders"),
        <<Column(Str("id"), Str("int"), TRUE, FALSE, NoReference),
          Column(Str("user_id"), Str("int"), FALSE, TRUE, Reference(Str("users"), Str("id")))>>),
      Table(Str("items"),
        <<Column(Str("ID"), Str("int"), TRUE, FALSE, NoReference),
          Column(Str("order_id"), Str("int"), FALSE, TRUE, Reference(Str("orders"), Str("id"))),
          Column(Str("user_id"), Str("int"), FALSE, TRUE, Reference(Str("users"), Str("id")))>>),
      Table(Str("logs"),
        <<Column(Str("id"), Str("int"), FALSE, FALSE, NoReference),
          Column(Str("note"), Str("text"), FALSE, FALSE, NoReference)>>),
      Table(Str("audit"),
        <<Column(Str("note"), Str("text"), FALSE, FALSE, NoReference)>>)>>

\* the texts typed into the editor
EditorTexts ==
    {<<>>, <<" ">>,
     SelectAll("users"),
     SelectAll("audit") \o <<"\n">>,
     SelectAll("users") \o <<"\n\n">> \o SelectAll("orders"),
     SelectAll("orders") \o <<"\n\n">> \o SelectAll("users"),
     SelectAll("orders") \o <<"\n\n">> \o SelectAll("items"),
     SelectAll("items") \o <<"\n\n">> \o SelectAll("orders"),
     <<"select", " ", "id", ",", " ", "name", " ", "from", " ", "users">>,
     <<"users">>}

\* the tables of one drop: different ones, at most MaxBatch; 'ghost' is not
\* in the schema
DroppedTables ==
    {names \in UNION {[1..n -> {"users", "orders", "items", "logs", "audit", "ghost"}] :
                         n \in 1..MaxBatch} :
        \A i, j \in 1..Len(names) : i # j => names[i] # names[j]}

\* setActiveSchema of the schema effect; the record of the last drop is
\* history kept for the properties and starts afresh with the schema, so
\* that a drop is always judged against the schema it was handled with
Editor_SchemaLoaded ==
    /\ editor.schema = <<>>
    /\ editor' = [editor EXCEPT !.schema = EditorSchema, !.last = EditorIdle.last]
    /\ UNCHANGED <<queryVars, sch, svc, call, bridge, app, storage>>

\* onChange of SqlEditor: updateTabContent with the text typed
Editor_Type ==
    /\ ~editor.isJoinBuilderOpen
    /\ \E text \in EditorTexts :
         editor' = [editor EXCEPT !.content = text, !.last = EditorIdle.last]
    /\ UNCHANGED <<queryVars, sch, svc, call, bridge, app, storage>>

Editor_Drop ==
    /\ ~editor.isJoinBuilderOpen
    /\ editor.last.op = "none"
    /\ \E tableNames \in DroppedTables : editor' = HandleEditorDrop(editor, tableNames)
    /\ UNCHANGED <<queryVars, sch, svc, call, bridge, app, storage>>

Editor_JoinConfirmed ==
    /\ editor.isJoinBuilderOpen
    /\ \E allColumns \in BOOLEAN : editor' = HandleJoinConfirmed(editor, allColumns)
    /\ UNCHANGED <<queryVars, sch, svc, call, bridge, app, storage>>

\* onClose of the modal: setIsJoinBuilderOpen(false)
Editor_JoinClosed ==
    /\ editor.isJoinBuilderOpen
    /\ editor' = [editor EXCEPT !.isJoinBuilderOpen = FALSE,
                                !.last = [editor.last EXCEPT !.op = "close"]]
    /\ UNCHANGED <<queryVars, sch, svc, call, bridge, app, storage>>

EditorNext ==
    \/ Editor_SchemaLoaded
    \/ Editor_Type
    \/ Editor_Drop
    \/ Editor_JoinConfirmed
    \/ Editor_JoinClosed

\* the editor makes no use of the bridge: one kind of window is enough
EditorInit == Init /\ externalMessage = "hasSend"

EditorSpec == EditorInit /\ [][EditorNext]_vars
(***************************************************************************)
(* Properties of the join inference, checked under EditorSpec.             *)
(***************************************************************************)
\* the tier an existing word of the text qualifies for with a new table:
\* 10 a foreign key of the new table points at it, 8 it is a table with a
\* foreign key pointing at the new table, 2 it is a table sharing a column
\* name that contains 'id' or 'key', 0 none of these
Tier(newTable, existing) ==
    LET schema == editor.schema
        cols(name) == LET t == FindTable(schema, name)
                      IN  IF t = 0
                          THEN {}
                          ELSE {schema[t].columns[j] : j \in 1..Len(schema[t].columns)}
        points(c, name) == c.isForeignKey /\ c.references.present
                              /\ c.references.table = Str(name)
    IN  IF \E c \in cols(newTable) : points(c, existing)
        THEN 10
        ELSE IF \E c \in cols(existing) : points(c, newTable)
             THEN 8
             ELSE IF \E c \in cols(newTable), d \in cols(existing) :
                        /\ ToLowerCase(c.name.s) = ToLowerCase(d.name.s)
                        /\ IncludesIdOrKey(ToLowerCase(c.name.s))
                  THEN 2
                  ELSE 0

\* the words of the text the tables were dropped on, in scan order
Scanned == ExistingTablesInSql(Trim(editor.last.before))

\* the highest tier a scanned word qualifies for with a new table
BestTier(newTable) ==
    LET tiers == {Tier(newTable, Scanned[k]) : k \in 1..Len(Scanned)} \cup {0}
    IN  CHOOSE t \in tiers : \A u \in tiers : u <= t

\* the drop has been handled and its joins are proposed
JoinsProposed == editor.last.op = "drop" /\ editor.isJoinBuilderOpen

\* C15: the join selected for a new table has the highest tier any existing
\* table qualifies for; when that tier is 10 or 8 its predicate equates a
\* declared foreign key with the column it references, also when the pair
\* shares an id/key column name; exactly the tier-2 joins are flagged
\* isHeuristic.
C15_ScoreTierPriority ==
    JoinsProposed
    => \A i \in 1..Len(editor.pendingJoins) :
          LET pj == editor.pendingJoins[i]
              n == pj.newTable.name.s
              e == pj.existingTable
              fkOf(t, target) ==
                  {c \in {t.columns[j] : j \in 1..Len(t.columns)} :
                      c.isForeignKey /\ c.references.present
                         /\ c.references.table = Str(target)}
          IN  /\ editor.last.scores[i] = BestTier(n)
              /\ Tier(n, e) = BestTier(n)
              /\ BestTier(n) \in {10, 8, 2}
              /\ pj.isHeuristic <=> BestTier(n) = 2
              /\ BestTier(n) = 10
                    => \E c \in fkOf(pj.newTable, e) :
                          pj.joinCondition = JoinCondition(n, c.name.s, e, c.references.column.s)
              /\ BestTier(n) = 8
                    => \E c \in fkOf(editor.schema[FindTable(editor.schema, e)], n) :
                          pj.joinCondition = JoinCondition(e, c.name.s, n, c.references.column.s)

\* a pair with both a declared foreign key and a shared id column was joined
\* on the foreign key, and another table of the drop by the name heuristic
C15_Witness ==
    /\ JoinsProposed
    /\ Len(editor.pendingJoins) = 2
    /\ editor.pendingJoins[1].newTable.name = Str("orders")
    /\ editor.pendingJoins[1].existingTable = "users"
    /\ editor.last.scores = <<10, 2>>
    /\ editor.pendingJoins[2].isHeuristic

\* the places in scan order of the words that qualify at the best tier
BestPlaces(newTable) ==
    {k \in 1..Len(Scanned) : Tier(newTable, Scanned[k]) = BestTier(newTable)}

Contains(text, sub) ==
    \E k \in 1..Len(text) :
       k + Len(sub) - 1 <= Len(text) /\ SubSeq(text, k, k + Len(sub) - 1) = sub

\* C17: after a drop on a text that is not empty, once the joins proposed
\* (if any) are confirmed, every dropped table of the schema for which no
\* existing table yields a candidate is in the text as an appended
\* SELECT * FROM "<table>" LIMIT 100; statement.
C17_NoCandidateAppended ==
    (/\ \/ editor.last.op = "drop" /\ ~editor.isJoinBuilderOpen
        \/ editor.last.op = "confirm"
     /\ Trim(editor.last.before) # <<>>)
    => \A k \in 1..Len(editor.last.tableNames) :
          LET n == editor.last.tableNames[k]
          IN  (FindTable(editor.schema, n) # 0 /\ BestTier(n) = 0)
              => Contains(editor.content, <<"\n\n">> \o SelectAll(n))

(***************************************************************************)
(* Properties of fetchSavedCredentials, checked under QuerySpec.           *)
(***************************************************************************)
FetchDone == op = "fetchSavedCredentials" /\ pc \in {"resolved", "rejected"}

\* the reply of the settled call, when it is an object with a truthy ok
FetchRepliedOk ==
    /\ externalMessage = "hasSend"
    /\ outcome.kind = "reply"
    /\ outcome.reply.k = "object"
    /\ Truthy(outcome.reply.ok)

\* C23: fetchSavedCredentials never rejects and resolves to an array: the
\* entries array of an ok reply, the one at the root if there is one and
\* else the one under data.entries, and the empty array in every other case
\* (no bridge, throw, rejection, ok not true, no entries array).
C23_EntriesArrayOrEmpty ==
    FetchDone =>
        /\ pc = "resolved"
        /\ credsRes = IF ~FetchRepliedOk
                      THEN <<>>
                      ELSE IF outcome.reply.entries.arr
                           THEN outcome.reply.entries.v
                           ELSE IF outcome.reply.dataEntries.arr
                                THEN outcome.reply.dataEntries.v
                                ELSE <<>>

\* C23 as amended: the array under data.entries is returned only when the
\* root has no truthy entries field; a truthy root entries that is not an
\* array gives the empty array whatever data.entries holds.
C23_NestedOnlyWithoutRoot ==
    FetchDone =>
        /\ pc = "resolved"
        /\ credsRes = IF ~FetchRepliedOk
                      THEN <<>>
                      ELSE IF outcome.reply.entries.has
                           THEN outcome.reply.entries.v
                           ELSE outcome.reply.dataEntries.v

\* an ok reply with no entries at the root was answered from data.entries
C23_Witness ==
    /\ FetchDone
    /\ FetchRepliedOk
    /\ ~outcome.reply.entries.has
    /\ outcome.reply.dataEntries.arr
    /\ Len(credsRes) = 2
    /\ credsRes = outcome.reply.dataEntries.v

(***************************************************************************)
(* The request sequence of getRemoteDatabaseSchema, checked under          *)
(* SchemaSpec.                                                             *)
(***************************************************************************)
\* the discovery has sent its list-tables query
DiscoveryStarted == RemoteSchema /\ sch.requests # <<>>

\* the requests of one table that was gone through: its columns query, and
\* its foreign-key query when the columns query gave a result
RequestsOf(h) ==
    <<GetColumns(sch.dialect, h.table)>>
       \o (IF h.cols = "ok" THEN <<GetForeignKeys(sch.dialect, h.table)>> ELSE <<>>)

\* the requests of the table the loop is at
RequestsOfCurrent ==
    CASE sch.phase = "columns" -> <<GetColumns(sch.dialect, sch.names[sch.idx])>>
      [] sch.phase = "fks" -> <<GetColumns(sch.dialect, sch.names[sch.idx]),
                                GetForeignKeys(sch.dialect, sch.names[sch.idx])>>
      [] OTHER -> <<>>

\* the requests that have been answered or have failed
Answered ==
    (IF sch.tablesQuery = "none" THEN 0 ELSE 1)
       + Len(Flatten([k \in 1..Len(sch.hist) |-> RequestsOf(sch.hist[k])]))
       + (IF sch.phase = "fks" THEN 1 ELSE 0)

\* 1 for a table whose columns query failed, 2 for every other table
RequestsPerTable(k) ==
    IF k <= Len(sch.hist) /\ sch.hist[k].cols # "ok" THEN 1 ELSE 2

RECURSIVE SumRequests(_)
SumRequests(k) == IF k = 0 THEN 0 ELSE RequestsPerTable(k) + SumRequests(k - 1)

\* C24: the discovery sends list-tables first, then per discovered table, in
\* order, the columns query and, only after a columns result, the
\* foreign-key query; never more than one request is unanswered and none is
\* sent twice; once the call has settled the requests number 1 plus, per
\* discovered table, 1 when its columns query failed and 2 otherwise.
C24_RequestSequence ==
    DiscoveryStarted =>
        /\ sch.requests
              = <<GetTables(sch.dialect)>>
                   \o Flatten([k \in 1..Len(sch.hist) |-> RequestsOf(sch.hist[k])])
                   \o RequestsOfCurrent
        /\ \A k \in 1..Len(sch.hist) : sch.hist[k].table = sch.names[k]
        /\ Len(sch.requests) - Answered \in {0, 1}
        /\ sch.phase \in {"done", "rejected"}
              => Len(sch.requests) = 1 + SumRequests(Len(sch.names))

(***************************************************************************)
(* Further properties of the router, checked under RouterSpec.             *)
(***************************************************************************)
\* C25: explainQuery hands the rewritten statement to the execution path a
\* plain query of the connection takes: with a credential, whatever its
\* dialect (mongodb included), to executeRemoteQuery; without one to the
\* engine executeQuery picks for the id.
C25_ExplainDelegation ==
    call.op = "explainQuery" =>
        LET plain == HandleRunQuery(svc, call.dbId, call.cred, call.text)
        IN  /\ call.text = ExplainSql(GetDialectForDb(svc, call.dbId, call.cred), call.sql)
            /\ call.backend = plain.backend
            /\ call.status = plain.status
            /\ call.cred.present => call.backend = "remote"

\* the ids of a list of entries, as a set
IdsOf(list) == {list[i].id : i \in 1..Len(list)}

\* the router's registry: both maps and the id counter
Registry(s) == <<s.realDatabases, s.instances, s.virtualIdCounter>>

\* map holds the entries of old at their places, and one more
GrownByOne(old, map) ==
    /\ Len(map) = Len(old) + 1
    /\ \A i \in 1..Len(old) : map[i] = old[i]
    /\ ~MapHas(old, map[Len(map)].key)

\* C26: the calls of the router other than uploadDatabase leave the map of
\* registered instances and the id counter as they are; the registry
\* changes only when an upload completes, and then by one added entry, none
\* removed or renamed; getDatabases lists every uploaded database and the
\* four built-in ones.
C26_RouterFrame ==
    [][/\ (call' # call) => Registry(svc') = Registry(svc)
       /\ Registry(svc') # Registry(svc)
             => /\ Len(svc'.uploads) < Len(svc.uploads)
                /\ GrownByOne(svc.realDatabases, svc'.realDatabases)
                /\ GrownByOne(svc.instances, svc'.instances)
                /\ svc'.virtualIdCounter > svc.virtualIdCounter
       /\ call'.op = "getDatabases"
             => /\ IdsOf(call'.databases)
                     = IdsOf(svc.issued) \cup {"db-1", "db-mssql", "db-2", "db-mongo"}
                /\ Len(call'.databases) = Len(svc.issued) + 4]_vars

\* getDatabases was called with two uploaded databases registered
C26_Witness ==
    /\ call.op = "getDatabases"
    /\ Len(svc.issued) = 2
    /\ Len(call.databases) = 6
    /\ call.databases[2].id = "user-db-2"

\* the upload that settled in this step, a record of svc.uploads
SettledUpload ==
    svc.uploads[CHOOSE i \in 1..Len(svc.uploads) :
                   svc'.uploads = SubSeq(svc.uploads, 1, i - 1)
                                     \o SubSeq(svc.uploads, i + 1, Len(svc.uploads))]

\* every id of realDatabases has an instance in the engine
InstancesCoverRegistry(s) ==
    \A i \in 1..Len(s.realDatabases) : MapHas(s.instances, s.realDatabases[i].key)

\* C27: over every interleaving of uploads, failed ones included, every id of
\* realDatabases has an instance under the same id in the embedded engine;
\* executeQuery of the router never rejects, whatever the connection id; an
\* upload that fails leaves both maps and the id counter unchanged.
C27_UploadConsistency ==
    [][/\ InstancesCoverRegistry(svc')
       /\ \A dbId \in ConnectionIds, sql \in SqlTexts :
             ExecuteQuery(svc', dbId, sql).status = "resolved"
       /\ (call'.op \in {"executeQuery", "explainQuery"} /\ ~call'.cred.present)
             => call'.status = "resolved"
       /\ (Len(svc'.uploads) < Len(svc.uploads) /\ ~CreateDatabaseFromFile(SettledUpload.file).ok)
             => Registry(svc') = Registry(svc)]_vars

\* after one upload that succeeded and one that failed, a query on the
\* uploaded database went to the embedded engine
C27_Witness ==
    /\ svc.started = 2
    /\ svc.uploads = <<>>
    /\ Len(svc.issued) = 1
    /\ call.op = "executeQuery"
    /\ ~call.cred.present
    /\ call.dbId = "user-db-1"
    /\ call.backend = "sqlite"
    /\ call.status = "resolved"

(***************************************************************************)
(* ImportSpec: files are uploaded one after the other, and the schema,     *)
(* the statistics and the rows of the uploaded databases are asked for     *)
(* through the router.                                                     *)
(***************************************************************************)
\* the lines of the delimited texts
TextLines ==
    {<<"1", "Alice">>, <<"007", "Bob">>, <<"true", "">>, <<"">>}

\* texts with the header id,name and up to two lines
Texts ==
    {[header |-> <<"id", "name">>, lines |-> lines] :
        lines \in {<<>>} \cup {<<a>> : a \in TextLines}
                     \cup {<<a, b>> : a \in TextLines, b \in TextLines}}

\* the files imported: delimited texts under a plain name; names that need
\* sanitizing; names whose extension is not recognized (the upper-case
\* .CSV, .txt, .bak, none), readable or not; database files
ImportFiles ==
    LET example == [header |-> <<"id", "name">>, lines |-> <<<<"1", "Alice">>>>]
        shop == CHOOSE f \in UploadFiles : f.name = <<"shop", ".", "sqlite">>
    IN  {File(<<"people", ".", "csv">>, TRUE, EmptyDatabase, t) : t \in Texts}
        \cup {File(n, TRUE, EmptyDatabase, example) :
                 n \in {<<"my", "-", "data", ".", "csv">>, <<"a", ".", "json", ".", "csv">>,
                        <<"DATA", ".", "CSV">>, <<"people", ".", "csv", ".", "bak">>}}
        \cup {File(n, l, EmptyDatabase, NoText) :
                 n \in {<<"notes", ".", "txt">>, <<"README">>}, l \in BOOLEAN}
        \cup {shop, [shop EXCEPT !.loads = FALSE],
              File(<<"people", ".", "csv">>, FALSE, EmptyDatabase, example)}

\* the table names asked for
ImportTableNames == {"people", "my_data", "a_json", "users"}

\* uploadDatabase, from the call to its return
Import_UploadDatabase ==
    /\ call.status = "idle"
    /\ svc.started < MaxUploads
    /\ \E file \in ImportFiles :
         LET u == [handle |-> svc.started + 1, file |-> file]
             ok == CreateDatabaseFromFile(file).ok
             dbId == UserDbId(svc.virtualIdCounter)
         IN  /\ svc' = [UploadDatabase(svc, u) EXCEPT !.started = svc.started + 1]
             /\ call' = [CallIdle EXCEPT
                            !.op = "uploadDatabase",
                            !.arg = <<file>>,
                            !.status = IF ok THEN "resolved" ELSE "rejected",
                            !.dbId = IF ok THEN dbId ELSE "",
                            !.databases =
                               IF ok
                               THEN <<[id |-> dbId, name |-> file.name, type |-> "sqlite"]>>
                               ELSE <<>>]
    /\ UNCHANGED <<queryVars, sch, bridge, editor, app, storage>>

Import_GetDatabaseSchema ==
    /\ call.status = "idle"
    /\ \E i \in 1..Len(svc.issued) :
         call' = CallOf("schema", svc.issued[i].id, NoCredential, NoScript, <<>>,
                        GetDatabaseSchema(svc, svc.issued[i].id))
    /\ UNCHANGED <<queryVars, sch, svc, bridge, editor, app, storage>>

Import_GetDatabaseStats ==
    /\ call.status = "idle"
    /\ \E i \in 1..Len(svc.issued) :
         call' = CallOf("getDatabaseStats", svc.issued[i].id, NoCredential, NoScript, <<>>,
                        GetDatabaseStats(svc, externalMessage, svc.issued[i].id,
                                         NoCredential, NoScript))
    /\ UNCHANGED <<queryVars, sch, svc, bridge, editor, app, storage>>

\* executeQuery(dbId, 'SELECT * FROM <table>') on an uploaded database
Import_ExecuteQuery ==
    /\ call.status = "idle"
    /\ \E i \in 1..Len(svc.issued), tableName \in ImportTableNames :
         LET dbId == svc.issued[i].id
             sql == <<"SELECT * FROM ", tableName>>
             known == MapHas(svc.instances, dbId)
             r == SqliteExecuteQuery(known,
                                     ExecSelectAll(MapGet(svc.instances, dbId), tableName), 0)
         IN  call' = [CallOf("executeQuery", dbId, NoCredential, NoScript, sql,
                             ExecuteQuery(svc, dbId, sql))
                         EXCEPT !.result = r.value]
    /\ UNCHANGED <<queryVars, sch, svc, bridge, editor, app, storage>>

ImportNext ==
    \/ Import_UploadDatabase
    \/ Import_GetDatabaseSchema
    \/ Import_GetDatabaseStats
    \/ Import_ExecuteQuery
    \/ Router_Return

\* the page has loaded in the Muul browser
ImportInit == Init /\ externalMessage = "hasSend"

ImportSpec == ImportInit /\ [][ImportNext]_vars

(***************************************************************************)
(* Properties of the imports, checked under ImportSpec.                    *)
(***************************************************************************)
\* the file the database of an id was made from
FileOf(dbId) == svc.issued[CHOOSE i \in 1..Len(svc.issued) : svc.issued[i].id = dbId].file

\* a delimited text with data rows, under a name ending in .csv, that was read
CsvWithRows(file) ==
    /\ EndsWithExtension(file.name, "csv")
    /\ file.loads
    /\ SelectSeq(file.text.lines, NotEmptyLine) # <<>>

\* the result of a call on the database of such a file
OnCsvImport == call.dbId # "" /\ call.status = "resolved" /\ CsvWithRows(FileOf(call.dbId))

\* C21: the database of an uploaded .csv file with a header and at least one
\* data row has one table, named by the sanitized file name, whose columns
\* are the header's, all TEXT, none a primary or foreign key; SELECT * on
\* that table returns the data rows in file order, every value the text the
\* file holds.
C21_DelimitedTextImport ==
    LET file == FileOf(call.dbId)
        lines == SelectSeq(file.text.lines, NotEmptyLine)
        header == file.text.header
    IN  /\ (call.op = "schema" /\ OnCsvImport)
              => /\ Len(call.tables) = 1
                 /\ call.tables[1].name = Str(SanitizeTableName(file.name))
                 /\ call.tables[1].columns
                       = [j \in 1..Len(header) |->
                             Column(Str(header[j]), Str("TEXT"), FALSE, FALSE, NoReference)]
        /\ (/\ call.op = "executeQuery"
            /\ OnCsvImport
            /\ call.sql = <<"SELECT * FROM ", SanitizeTableName(file.name)>>)
              => /\ call.result.error = Undef
                 /\ call.result.columns = header
                 /\ call.result.rows
                       = [i \in 1..Len(lines) |->
                             ArrRow([j \in 1..Len(lines[i]) |-> Str(lines[i][j])])]

\* the name has none of the extensions createDatabaseFromFile knows
Unrecognized(name) ==
    /\ ~EndsWithExtension(name, "sqlite")
    /\ ~EndsWithExtension(name, "db")
    /\ ~EndsWithExtension(name, "csv")

C28_NoSelfJoin ==
    JoinsProposed
    => \A i \in 1..Len(editor.pendingJoins) :
          editor.pendingJoins[i].existingTable # editor.pendingJoins[i].newTable.name.s

(***************************************************************************)
(* SwitchSpec: the schema effect of App while the user switches between    *)
(* connections.  Each change of selectedDbId runs the effect again, which  *)
(* starts a schema load and registers its then-callback; the effect has no *)
(* cleanup, so the callbacks of earlier loads stay registered, and the     *)
(* loads settle in any order.                                              *)
(***************************************************************************)
MaxLoads == 2

\* the connections of the sidebar the user switches between
SwitchIds == {"db-1", "db-mssql", "db-mongo", "cred-1"}

\* savedCredentials.find(c => c.id === selectedDbId)
SavedCredential(dbId) ==
    IF dbId = "cred-1" THEN Credential(dbId, Str("postgres")) ELSE NoCredential

\* s.tables.map(t => t.name)
NamesOfTables(tables) == [i \in 1..Len(tables) |-> tables[i].name]

\* setSelectedDbId and the run of the effect it triggers: the load starts
App_SetSelectedDbId ==
    /\ Len(app.loads) < MaxLoads
    /\ \E dbId \in SwitchIds \ {app.selectedDbId}, script \in Scripts :
         LET r == SchemaEffect(svc, externalMessage, dbId, SavedCredential(dbId), script)
             load == [dbId |-> dbId, status |-> r.status, tables |-> r.tables]
         IN  app' = [app EXCEPT !.selectedDbId = dbId,
                                !.loads = Append(app.loads, load),
                                !.current = [status |-> r.status, tables |-> r.tables]]
    /\ UNCHANGED <<queryVars, sch, svc, call, bridge, editor, storage>>

\* one of the loads in flight settles, whichever; a resolved one runs its
\* callback, whose selectedDbId is the one of the render that started it
App_SchemaSettled ==
    /\ \E i \in 1..Len(app.loads) :
         LET load == app.loads[i]
             rest == SubSeq(app.loads, 1, i - 1)
                        \o SubSeq(app.loads, i + 1, Len(app.loads))
         IN  IF load.status = "resolved"
             THEN /\ editor' = [editor EXCEPT !.schema = load.tables,
                                              !.last = EditorIdle.last]
                  /\ app' = [app EXCEPT !.loads = rest,
                                        !.dbTables = MapSet(app.dbTables, load.dbId,
                                                            NamesOfTables(load.tables))]
             ELSE /\ app' = [app EXCEPT !.loads = rest]
                  /\ UNCHANGED editor
    /\ UNCHANGED <<queryVars, sch, svc, call, bridge, storage>>

SwitchNext ==
    \/ App_SetSelectedDbId
    \/ App_SchemaSettled

SwitchInit == Init /\ externalMessage = "hasSend"

SwitchSpec == SwitchInit /\ [][SwitchNext]_vars

\* C29: schema loads do not race with connection switches: once every load
\* in flight has completed, the active schema is the schema loaded for the
\* connection selected last, whatever the order of the replies, and the table
\* list cached under a connection id is that connection's own.
C29_NoSchemaRace ==
    /\ (app.loads = <<>> /\ app.current.status = "resolved")
          => editor.schema = app.current.tables
    /\ \A i \in 1..Len(app.dbTables) :
          \E script \in Scripts :
             app.dbTables[i].value
                = NamesOfTables(SchemaEffect(svc, externalMessage, app.dbTables[i].key,
                                          SavedCredential(app.dbTables[i].key),
                                          script).tables)

(***************************************************************************)
(* HistorySpec: DbaHistoryService over localStorage.  The store outlives   *)
(* the page, so a run starts on an empty profile or on the records of      *)
(* earlier sessions, which were saved before the clock of this page        *)
(* started; the calls of the service are synchronous, so several of them   *)
(* can read the same millisecond.                                          *)
(***************************************************************************)
HistoryLimit == 100
MaxCalls == 3

HistoryDbIds == {"db-1", "db-2"}
InsightIds == {"sizes", "locks"}

HistoryRecord(id, dbId, insightId, timestamp) ==
    [id |-> id, dbId |-> dbId, insightId |-> insightId, timestamp |-> timestamp]

\* n records of earlier sessions, newest first
EarlierRecords(n) ==
    [i \in 1..n |->
        HistoryRecord(RequestId("hist", 0 - i),
                      IF i % 2 = 0 THEN "db-1" ELSE "db-2", "sizes", 0 - i)]

StoredHistories ==
    {NoStorage}
       \cup {[NoStorage EXCEPT !.present = TRUE, !.records = EarlierRecords(n)] :
               n \in {HistoryLimit - 1, HistoryLimit}}

\* getHistory(): if (!raw) return []; return JSON.parse(raw)
GetHistory(st) == IF st.present THEN st.records ELSE <<>>

\* all.slice(0, 100)
Slice(all, n) == SubSeq(all, 1, IF Len(all) < n THEN Len(all) ELSE n)

\* saveSnapshot: the record goes to the front and the list is cut to the limit
SaveSnapshot(st, now, dbId, insightId) ==
    LET record == HistoryRecord(RequestId("hist", now), dbId, insightId, now)
    IN  [st EXCEPT !.present = TRUE,
                   !.records = Slice(<<record>> \o GetHistory(st), HistoryLimit),
                   !.calls = st.calls + 1,
                   !.last = [op |-> "saveSnapshot", dbId |-> dbId, id |-> record.id,
                             before |-> GetHistory(st)]]

\* clearHistory: without a dbId the key is removed, otherwise the records of
\* the other databases are written back
ClearHistory(st, dbId) ==
    LET remaining == SelectSeq(GetHistory(st), LAMBDA r : r.dbId # dbId)
    IN  [st EXCEPT !.present = (dbId # ""),
                   !.records = IF dbId = "" THEN <<>> ELSE remaining,
                   !.calls = st.calls + 1,
                   !.last = [op |-> "clearHistory", dbId |-> dbId,
                             id |-> NoStorage.last.id, before |-> GetHistory(st)]]

\* deleteRecord: getHistory().filter(r => r.id !== id) is written back
DeleteRecord(st, id) ==
    [st EXCEPT !.present = TRUE,
               !.records = SelectSeq(GetHistory(st), LAMBDA r : r.id # id),
               !.calls = st.calls + 1,
               !.last = [op |-> "deleteRecord", dbId |-> "", id |-> id,
                         before |-> GetHistory(st)]]

\* the records of the history list the user can reach for: the two newest
\* and the oldest
Selectable(all) ==
    {all[i].id : i \in {k \in {1, 2, Len(all)} : k >= 1 /\ k <= Len(all)}}

History_SaveSnapshot ==
    /\ storage.calls < MaxCalls
    /\ \E dbId \in HistoryDbIds, insightId \in InsightIds :
         storage' = SaveSnapshot(storage, bridge.now, dbId, insightId)
    /\ UNCHANGED <<queryVars, sch, svc, call, bridge, editor, app>>

History_ClearHistory ==
    /\ storage.calls < MaxCalls
    /\ \E dbId \in HistoryDbIds \cup {""} :
         storage' = ClearHistory(storage, dbId)
    /\ UNCHANGED <<queryVars, sch, svc, call, bridge, editor, app>>

\* handleDeleteHistory of DbaPanel
History_DeleteRecord ==
    /\ storage.calls < MaxCalls
    /\ \E id \in Selectable(GetHistory(storage)) :
         storage' = DeleteRecord(storage, id)
    /\ UNCHANGED <<queryVars, sch, svc, call, bridge, editor, app>>

HistoryNext ==
    \/ Clock_Tick
    \/ History_SaveSnapshot
    \/ History_ClearHistory
    \/ History_DeleteRecord

HistoryInit ==
    /\ externalMessage = "hasSend"
    /\ op = "none"
    /\ pc = "idle"
    /\ sent = <<>>
    /\ outcome = NoOutcome
    /\ qres = NoResult
    /\ credsRes = <<>>
    /\ isMuul = FALSE
    /\ sch = SchIdle
    /\ svc = SvcInit
    /\ call = CallIdle
    /\ bridge = BridgeIdle
    /\ editor = EditorIdle
    /\ app = AppIdle
    /\ storage \in StoredHistories

HistorySpec == HistoryInit /\ [][HistoryNext]_vars

\* the list without its element at position i
Without(all, i) == SubSeq(all, 1, i - 1) \o SubSeq(all, i + 1, Len(all))

NewestFirst(all) ==
    \A i \in 1..Len(all) : \A j \in i..Len(all) : all[i].timestamp >= all[j].timestamp

\* C30: the stored history holds at most 100 records ordered newest first; a
\* saveSnapshot on a full store puts the new record at the front and evicts
\* exactly the oldest one, clearHistory(dbId) removes exactly the records of
\* that database, and deleteRecord(id) removes only the one snapshot the
\* caller selected.
C30_HistoryStore ==
    LET all == GetHistory(storage)
        before == storage.last.before
    IN  /\ Len(all) <= HistoryLimit
        /\ NewestFirst(all)
        /\ (storage.last.op = "saveSnapshot" /\ Len(before) = HistoryLimit)
              => /\ all[1].id = storage.last.id
                 /\ SubSeq(all, 2, Len(all)) = SubSeq(before, 1, HistoryLimit - 1)
        /\ (storage.last.op = "clearHistory" /\ storage.last.dbId # "")
              => all = SelectSeq(before, LAMBDA r : r.dbId # storage.last.dbId)
        /\ storage.last.op = "deleteRecord"
              => \E i \in 1..Len(before) :
                    before[i].id = storage.last.id /\ all = Without(before, i)
====
